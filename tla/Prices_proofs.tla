---------------------------- MODULE Prices_proofs ----------------------------
(***************************************************************************)
(* What is computed from prices: the pip values of the cross rates, for    *)
(* every set of pairs and currencies, every way the broker quotes them and *)
(* every throttle; and the decisions of the signals, for any periods,      *)
(* thresholds and candles, over windows of any length.                     *)
(***************************************************************************)
EXTENDS CrossRates, Signals, RiskOps_proofs

\* ---- the cross rates ----------------------------------------------------------------

\* What refresh has still to do loses its first currency and no other.
LEMMA TodoTail ==
    ASSUME NEW S, NEW s \in Seq(S), s # <<>>
    PROVE  /\ Tail(s) \in Seq(S) /\ Head(s) \in S
           /\ ToSet(s) \subseteq ToSet(Tail(s)) \cup {Head(s)}
<1>1. Tail(s) \in Seq(S) /\ Head(s) \in S
  OBVIOUS
<1>2. ASSUME NEW n \in DOMAIN s PROVE s[n] \in ToSet(Tail(s)) \cup {Head(s)}
  <2>1. CASE n = 1
    BY <2>1
  <2>2. CASE n # 1
    <3>1. n - 1 \in DOMAIN Tail(s) /\ Tail(s)[n - 1] = s[n]
      BY <2>2
    <3> QED
      BY <3>1 DEF ToSet
  <2> QED
    BY <2>1, <2>2
<1> QED
  BY <1>1, <1>2 DEF ToSet

-----------------------------------------------------------------------------
\* ---- Type correctness ----------------------------------------------------

\* The book and the observers; the handler's part of TypeOK is by itself.
BookOK ==
    /\ mid \in [Currencies -> Mids]
    /\ since \in 0..FullAge
    /\ way \in [Currencies -> Ways \cup {"none"}]
    /\ rate \in [Currencies -> {<<>>} \cup {<<w>> : w \in Worths}]
    /\ age \in [Currencies -> 0..FullAge]
    /\ old \subseteq Currencies /\ missed \subseteq Currencies
    /\ moved \subseteq Currencies

HandlerOK ==
    /\ step \in Ways \cup {"idle", "fetch", "size"}
    /\ todo \in Seq(Currencies)
    /\ step \in Ways \cup {"fetch"} <=> todo # <<>>
    /\ attempt \in 1..MaxAttempts

\* TypeOK by its parts.
LEMMA TypeParts == TypeOK <=> trouble \in BOOLEAN /\ BookOK /\ HandlerOK
BY DEF TypeOK, BookOK, HandlerOK

\* The rate that is written is a worth.
LEMMA FetchedIsWorth ==
    ASSUME NEW m \in Mids, NEW w PROVE FetchedRate(m, w) \in Worths
BY DEF FetchedRate, Worths

\* Ages grow within their range, and together.
LEMMA OlderAges ==
    ASSUME NEW a \in 0..FullAge, NEW b \in 0..FullAge
    PROVE  Older(a) \in 0..FullAge /\ (a <= b => Older(a) <= Older(b))
BY RatesAssumption DEF Older, FullAge, RatesAssumption

\* A step keeps the types.
LEMMA StepTypes == TypeOK /\ [Next]_vars => TypeOK'
<1> SUFFICES ASSUME TypeOK, [Next]_vars PROVE TypeOK'
  OBVIOUS
<1> USE RatesAssumption DEF RatesAssumption
<1>1. trouble \in BOOLEAN /\ BookOK /\ HandlerOK
  BY TypeParts
<1>2. trouble' \in BOOLEAN
  BY <1>1, Zenon DEF Next, Engine, Candle, Answered, Fetched, Retried, Failed,
     Size, Tick, Move, Weather, Restart, vars
<1>3. todo # <<>> => /\ Current \in Currencies
                     /\ Tail(todo) \in Seq(Currencies)
  BY <1>1, TodoTail DEF HandlerOK, Current
<1>4. ASSUME NEW s \in Seq(Currencies), Begin(s)
      PROVE  /\ todo' \in Seq(Currencies)
             /\ step' \in Ways \cup {"idle", "fetch", "size"}
             /\ step' \in Ways \cup {"fetch"} <=> todo' # <<>>
  BY <1>4 DEF Begin, Ways
<1>one. 1 \in 1..MaxAttempts
  OBVIOUS
<1>5. CASE Candle
  <2>1. BookOK'
    BY <1>1, <1>5 DEF Candle, BookOK, FullAge
  <2>2. HandlerOK'
    <3>1. CASE Throttled
      BY <1>1, <1>5, <3>1 DEF Candle, HandlerOK, Ways
    <3>2. CASE ~Throttled
      BY <1>1, <1>4, <1>5, <3>2 DEF Candle, HandlerOK
    <3> QED
      BY <3>1, <3>2
  <2> QED
    BY <1>2, <2>1, <2>2, TypeParts DEF TypeOK, BookOK, HandlerOK
<1>6. CASE Answered
  <2>1. BookOK'
    BY <1>1, <1>3, <1>6 DEF Answered, BookOK, observers
  <2>2. HandlerOK'
    BY <1>1, <1>6 DEF Answered, HandlerOK, Ways
  <2> QED
    BY <1>2, <2>1, <2>2 DEF TypeOK, BookOK, HandlerOK
<1>7. CASE Fetched
  <2>1. Current \in Currencies /\ Tail(todo) \in Seq(Currencies)
    BY <1>1, <1>3, <1>7 DEF Fetched, HandlerOK
  <2>2. FetchedRate(mid[Current], way[Current]) \in Worths
    BY <1>1, <2>1, FetchedIsWorth DEF BookOK
  <2>3. rate' \in [Currencies -> {<<>>} \cup {<<w>> : w \in Worths}]
    BY <1>1, <1>7, <2>2 DEF Fetched, BookOK
  <2>4. BookOK'
    BY <1>1, <1>7, <2>1, <2>3 DEF Fetched, BookOK, FullAge
  <2>5. HandlerOK'
    <3>1. Begin(Tail(todo)) /\ attempt' = 1
      BY <1>7 DEF Fetched
    <3>2. attempt' \in 1..MaxAttempts
      BY <1>one, <3>1
    <3> QED
      BY <1>4, <2>1, <3>1, <3>2, Zenon DEF HandlerOK
  <2> QED
    BY <1>2, <2>4, <2>5 DEF TypeOK, BookOK, HandlerOK
<1>8. CASE Retried
  <2>1. BookOK'
    BY <1>1, <1>8 DEF Retried, BookOK, book, observers
  <2>2. HandlerOK'
    BY <1>1, <1>8 DEF Retried, HandlerOK
  <2> QED
    BY <1>2, <2>1, <2>2 DEF TypeOK, BookOK, HandlerOK
<1>9. CASE Failed
  <2>1. Current \in Currencies /\ Tail(todo) \in Seq(Currencies)
    BY <1>1, <1>3, <1>9 DEF Failed, HandlerOK, Requesting
  <2>2. BookOK'
    BY <1>1, <1>9, <2>1 DEF Failed, GiveUp, BookOK, book
  <2>3. HandlerOK'
    <3>1. CASE step = "direct"
      BY <1>1, <1>9, <3>1 DEF Failed, HandlerOK, Ways
    <3>2. CASE step # "direct"
      <4>1. Begin(Tail(todo)) /\ attempt' = 1
        BY <1>9, <3>2 DEF Failed, GiveUp
      <4>2. attempt' \in 1..MaxAttempts
        BY <1>one, <4>1
      <4> QED
        BY <1>4, <2>1, <4>1, <4>2, Zenon DEF HandlerOK
    <3> QED
      BY <3>1, <3>2
  <2> QED
    BY <1>2, <2>2, <2>3 DEF TypeOK, BookOK, HandlerOK
<1>10. CASE Size
  <2>1. BookOK'
    BY <1>1, <1>10 DEF Size, BookOK, book, observers
  <2>2. HandlerOK'
    BY <1>1, <1>10 DEF Size, HandlerOK, Ways
  <2> QED
    BY <1>2, <2>1, <2>2 DEF TypeOK, BookOK, HandlerOK
<1>11. CASE Tick
  <2>1. since' \in 0..FullAge /\ age' \in [Currencies -> 0..FullAge]
    BY <1>1, <1>11, OlderAges DEF Tick, BookOK
  <2>2. BookOK'
    BY <1>1, <1>11, <2>1 DEF Tick, BookOK
  <2>3. HandlerOK'
    BY <1>1, <1>11 DEF Tick, HandlerOK, handler
  <2> QED
    BY <1>2, <2>2, <2>3 DEF TypeOK, BookOK, HandlerOK
<1>12. ASSUME NEW c \in Currencies, Move(c) PROVE TypeOK'
  <2>1. BookOK'
    <3>1. PICK m \in Mids : mid' = [mid EXCEPT ![c] = m]
      BY <1>12 DEF Move
    <3> QED
      BY <1>1, <1>12, <3>1 DEF Move, BookOK, book
  <2>2. HandlerOK'
    BY <1>1, <1>12 DEF Move, HandlerOK, handler
  <2> QED
    BY <1>2, <2>1, <2>2 DEF TypeOK, BookOK, HandlerOK
<1>13. CASE Weather
  <2>1. BookOK'
    BY <1>1, <1>13 DEF Weather, BookOK, book, observers
  <2>2. HandlerOK'
    BY <1>1, <1>13 DEF Weather, HandlerOK, handler
  <2> QED
    BY <1>2, <2>1, <2>2 DEF TypeOK, BookOK, HandlerOK
<1>14. CASE Restart
  <2>1. BookOK'
    BY <1>1, <1>14 DEF Restart, Fresh, BookOK, FullAge
  <2>2. HandlerOK'
    BY <1>1, <1>14 DEF Restart, Fresh, HandlerOK, Ways
  <2> QED
    BY <1>2, <2>1, <2>2 DEF TypeOK, BookOK, HandlerOK
<1>15. CASE UNCHANGED vars
  <2>1. BookOK'
    BY <1>1, <1>15 DEF vars, BookOK, book, observers
  <2>2. HandlerOK'
    BY <1>1, <1>15 DEF vars, HandlerOK, handler
  <2> QED
    BY <1>2, <2>1, <2>2 DEF TypeOK, BookOK, HandlerOK
<1> QED
  BY <1>5, <1>6, <1>7, <1>8, <1>9, <1>10, <1>11, <1>12, <1>13, <1>14, <1>15
  DEF Next, Engine

\* The types hold at the start.
LEMMA InitTypes == Init => TypeOK
<1> SUFFICES ASSUME Init PROVE TypeOK
  OBVIOUS
<1> USE RatesAssumption DEF RatesAssumption
<1>1. trouble \in BOOLEAN
  BY Zenon DEF Init
<1>2. BookOK
  BY DEF Init, BookOK, FullAge
<1>3. HandlerOK
  BY DEF Init, HandlerOK, Ways
<1> QED
  BY <1>1, <1>2, <1>3 DEF TypeOK, BookOK, HandlerOK

\* Every reachable state is well typed: TypeOK.
THEOREM RatesTypeCorrect == Spec => []TypeOK
BY InitTypes, StepTypes, PTL DEF Spec

-----------------------------------------------------------------------------
\* ---- Fresh rates ---------------------------------------------------------

\* A rate that refresh is done with is no older than the refresh, or its fetch
\* failed; so when the throttle holds it is not due, and if it was due when the
\* candle came it was fetched since.
DoneRate(c) ==
    rate[c] # <<>> /\ c \notin missed =>
        /\ age[c] <= since
        /\ step # "idle" => c \notin old

FreshInv ==
    /\ TypeOK
    /\ \A c \in Currencies : c \notin ToSet(todo) => DoneRate(c)

\* Every rate is done at the start.
LEMMA FreshInit == Init => FreshInv
<1> SUFFICES ASSUME Init PROVE FreshInv
  OBVIOUS
<1>1. ASSUME NEW c \in Currencies PROVE rate[c] = <<>>
  BY <1>1 DEF Init
<1> QED
  BY <1>1, InitTypes DEF FreshInv, DoneRate

\* After refresh is done with its first currency, what it has still to do is
\* the tail, and the others are as they were.
LEMMA FreshTail ==
    ASSUME FreshInv, todo # <<>>, todo' = Tail(todo),
           NEW d \in Currencies, d = Head(todo), DoneRate(d)',
           \A c \in Currencies \ {d} : DoneRate(c) => DoneRate(c)'
    PROVE  \A c \in Currencies : c \notin ToSet(todo') => DoneRate(c)'
<1>1. ToSet(todo) \subseteq ToSet(Tail(todo)) \cup {d}
  BY TodoTail DEF FreshInv, TypeOK
<1>2. ASSUME NEW c \in Currencies, c \notin ToSet(todo') PROVE DoneRate(c)'
  <2>1. CASE c = d
    BY <2>1
  <2>2. CASE c # d
    <3>1. c \notin ToSet(todo)
      BY <1>1, <1>2, <2>2
    <3> QED
      BY <2>2, <3>1 DEF FreshInv
  <2> QED
    BY <2>1, <2>2
<1> QED
  BY <1>2

\* A step keeps a rate that is done.
LEMMA FreshStep == FreshInv /\ [Next]_vars => FreshInv'
<1> SUFFICES ASSUME FreshInv, [Next]_vars
             PROVE  \A c \in Currencies : c \notin ToSet(todo') => DoneRate(c)'
  BY StepTypes DEF FreshInv
<1>1. TypeOK /\ BookOK /\ HandlerOK
  BY TypeParts DEF FreshInv
<1>2. todo # <<>> => Current \in Currencies
  BY <1>1, TodoTail DEF HandlerOK, Current
<1>3. CASE Candle
  <2>1. todo = <<>>
    BY <1>1, <1>3 DEF Candle, HandlerOK, Ways
  <2>2. CASE Throttled
    <3>1. ASSUME NEW c \in Currencies PROVE DoneRate(c)'
      <4>1. DoneRate(c)
        BY <2>1, <3>1 DEF FreshInv, ToSet
      <4>2. age[c] \in Int /\ since \in Int /\ RefreshSecs \in Int
        BY <1>1, <3>1, RatesAssumption DEF BookOK, FullAge, RatesAssumption
      <4> QED
        BY <1>3, <2>2, <4>1, <4>2 DEF Candle, DoneRate, Throttled
    <3> QED
      BY <3>1
  <2>3. CASE ~Throttled
    <3>1. todo' = Needed
      BY <1>3, <2>3 DEF Candle, Begin
    <3> QED
      BY <3>1 DEF Currencies
  <2> QED
    BY <2>2, <2>3
<1>4. CASE Answered
  <2>1. step # "idle" /\ UNCHANGED <<since, rate, todo, age, old, missed>>
    BY <1>4 DEF Answered, observers, Ways
  <2> QED
    BY <2>1 DEF FreshInv, DoneRate
<1>5. CASE Fetched
  <2>1. todo # <<>> /\ todo' = Tail(todo) /\ step # "idle"
    BY <1>1, <1>5 DEF Fetched, HandlerOK, Begin, Ways
  <2>2. PICK d \in Currencies : d = Head(todo)
    BY <1>2, <2>1 DEF Current
  <2>3. ASSUME NEW c \in Currencies \ {d}, DoneRate(c) PROVE DoneRate(c)'
    BY <1>1, <1>5, <2>1, <2>2, <2>3 DEF Fetched, Current, DoneRate, BookOK
  <2>4. DoneRate(d)'
    BY <1>1, <1>5, <2>2 DEF Fetched, Current, DoneRate, BookOK
  <2> QED
    BY <2>1, <2>2, <2>3, <2>4, FreshTail
<1>6. CASE Retried
  BY <1>6 DEF Retried, FreshInv, DoneRate, book, observers
<1>7. CASE Failed
  <2>1. todo # <<>> /\ step # "idle"
    BY <1>1, <1>7 DEF Failed, Requesting, HandlerOK, Ways
  <2>2. CASE step = "direct"
    BY <1>7, <2>1, <2>2 DEF Failed, FreshInv, DoneRate, book
  <2>3. CASE step # "direct"
    <3>1. PICK d \in Currencies : d = Head(todo)
      BY <1>2, <2>1 DEF Current
    <3>2. todo' = Tail(todo) /\ missed' = missed \cup {d}
      BY <1>7, <2>3, <3>1 DEF Failed, GiveUp, Begin, Current
    <3>3. ASSUME NEW c \in Currencies \ {d}, DoneRate(c) PROVE DoneRate(c)'
      BY <1>7, <2>1, <3>2, <3>3 DEF Failed, DoneRate, book
    <3>4. DoneRate(d)'
      BY <3>2 DEF DoneRate
    <3> QED
      BY <2>1, <3>1, <3>2, <3>3, <3>4, FreshTail
  <2> QED
    BY <2>2, <2>3
<1>8. CASE Size
  BY <1>8 DEF Size, FreshInv, DoneRate, book, observers
<1>9. CASE Tick
  <2>1. ASSUME NEW c \in Currencies, DoneRate(c) PROVE DoneRate(c)'
    <3>1. age[c] \in 0..FullAge /\ since \in 0..FullAge /\ age'[c] = Older(age[c])
      BY <1>1, <1>9, <2>1 DEF BookOK, Tick
    <3>2. age[c] <= since => age'[c] <= since'
      BY <1>9, <3>1, OlderAges DEF Tick
    <3> QED
      BY <1>9, <2>1, <3>2 DEF Tick, DoneRate, handler
  <2> QED
    BY <1>9, <2>1 DEF Tick, FreshInv, handler
<1>10. ASSUME NEW d \in Currencies, Move(d)
       PROVE  \A c \in Currencies : c \notin ToSet(todo') => DoneRate(c)'
  BY <1>10 DEF Move, FreshInv, DoneRate, book, handler
<1>11. CASE Weather
  BY <1>11 DEF Weather, FreshInv, DoneRate, book, handler, observers
<1>12. CASE Restart
  BY <1>12 DEF Restart, Fresh, DoneRate
<1>13. CASE UNCHANGED vars
  BY <1>13 DEF vars, FreshInv, DoneRate, book, handler, observers
<1> QED
  BY <1>3, <1>4, <1>5, <1>6, <1>7, <1>8, <1>9, <1>10, <1>11, <1>12, <1>13
  DEF Next, Engine

\* FreshWhenSized, the promise of CrossRateBook.refresh: whatever fails and
\* however long the requests take, the rate that sizes a trade was not due when
\* the candle came, was fetched since, or could not be fetched.
THEOREM FreshRates == Spec => []FreshWhenSized
<1>1. FreshInv => FreshWhenSized
  <2> SUFFICES ASSUME FreshInv, step = "size", NEW c \in Currencies,
                      rate[c] # <<>>, c \in old
               PROVE  c \in missed
    BY DEF FreshWhenSized
  <2>1. todo = <<>>
    BY DEF FreshInv, TypeOK, Ways
  <2>2. DoneRate(c)
    BY <2>1 DEF FreshInv, ToSet
  <2> QED
    BY <2>2 DEF DoneRate
<1> QED
  BY <1>1, FreshInit, FreshStep, PTL DEF Spec

-----------------------------------------------------------------------------
\* ---- True pip values -----------------------------------------------------

\* A rate is that of a quoted currency, and its worth since the last fetch;
\* and what is fetched has been resolved.
TrueRate(c) ==
    rate[c] # <<>> =>
        /\ Quoted[c] # "none"
        /\ c \notin moved => rate[c] = <<Worth(mid[c], Quoted[c])>>

TrueInv ==
    /\ TypeOK
    /\ step = "fetch" => way[Head(todo)] \in Ways
    /\ \A c \in Currencies : TrueRate(c)

\* A step keeps the rates true.
LEMMA TrueStep == TrueInv /\ [Next]_vars => TrueInv'
<1> SUFFICES ASSUME TrueInv, [Next]_vars
             PROVE  /\ (step = "fetch" => way[Head(todo)] \in Ways)'
                    /\ \A c \in Currencies : TrueRate(c)'
  BY StepTypes DEF TrueInv
<1>1. TypeOK /\ BookOK /\ HandlerOK
  BY TypeParts DEF TrueInv
<1>2. todo # <<>> => Current \in Currencies
  BY <1>1, TodoTail DEF HandlerOK, Current
\* Begin fetches at once only what is resolved.
<1>3. ASSUME NEW s \in Seq(Currencies), Begin(s), way' = way
      PROVE  (step = "fetch" => way[Head(todo)] \in Ways)'
  <2>1. s # <<>> => Head(s) \in Currencies
    BY TodoTail
  <2> QED
    BY <1>1, <1>3, <2>1 DEF Begin, BookOK, Ways
<1>4. CASE Candle
  <2>1. way' = way /\ (step' = "size" \/ Begin(Needed))
    BY <1>4 DEF Candle
  <2> QED
    BY <1>3, <1>4, <2>1, RatesAssumption
    DEF Candle, TrueInv, TrueRate, RatesAssumption
<1>5. CASE Answered
  <2>1. todo # <<>> /\ step \in Ways /\ todo' = todo
    BY <1>1, <1>5 DEF Answered, HandlerOK
  <2>2. Head(todo) \in Currencies /\ way' = [way EXCEPT ![Head(todo)] = step]
    BY <1>2, <1>5, <2>1 DEF Answered, Current
  <2>3. way'[Head(todo)] \in Ways
    BY <1>1, <2>1, <2>2 DEF BookOK
  <2> QED
    BY <1>5, <2>1, <2>3 DEF Answered, TrueInv, TrueRate, observers
<1>6. CASE Fetched
  <2>1. todo # <<>> /\ Tail(todo) \in Seq(Currencies)
    BY <1>1, <1>6, TodoTail DEF Fetched, HandlerOK
  <2>2. PICK d \in Currencies : d = Head(todo)
    BY <1>2, <2>1 DEF Current
  <2>3. (step = "fetch" => way[Head(todo)] \in Ways)'
    BY <1>3, <1>6, <2>1 DEF Fetched
  <2>4. Quoted[d] = way[d] /\ way[d] \in Ways
    BY <1>6, <2>2 DEF Fetched, Exists, Current, TrueInv
  <2>5. rate' = [rate EXCEPT ![d] = <<Worth(mid[d], Quoted[d])>>]
    BY <1>6, <2>2, <2>4 DEF Fetched, Current, FetchedRate, Worth
  <2>6. ASSUME NEW c \in Currencies PROVE TrueRate(c)'
    <3>1. CASE c = d
      BY <1>1, <1>6, <2>4, <2>5, <3>1 DEF Fetched, TrueRate, BookOK, Ways
    <3>2. CASE c # d
      BY <1>1, <1>6, <2>2, <2>5, <3>2
      DEF Fetched, Current, TrueInv, TrueRate, BookOK
    <3> QED
      BY <3>1, <3>2
  <2> QED
    BY <2>3, <2>6
<1>7. CASE Retried
  BY <1>7 DEF Retried, TrueInv, TrueRate, book, observers
<1>8. CASE Failed
  <2>1. todo # <<>> /\ Tail(todo) \in Seq(Currencies)
    BY <1>1, <1>8, TodoTail DEF Failed, Requesting, HandlerOK
  <2>2. (step = "fetch" => way[Head(todo)] \in Ways)'
    <3>1. CASE step = "direct"
      BY <1>8, <3>1 DEF Failed
    <3>2. CASE step # "direct"
      BY <1>3, <1>8, <2>1, <3>2 DEF Failed, GiveUp, book
    <3> QED
      BY <3>1, <3>2
  <2> QED
    BY <1>8, <2>2 DEF Failed, TrueInv, TrueRate, book
<1>9. CASE Size
  BY <1>9 DEF Size, TrueInv, TrueRate, book, observers
<1>10. CASE Tick
  BY <1>10 DEF Tick, TrueInv, TrueRate, handler
<1>11. ASSUME NEW d \in Currencies, Move(d)
       PROVE  /\ (step = "fetch" => way[Head(todo)] \in Ways)'
              /\ \A c \in Currencies : TrueRate(c)'
  <2>1. UNCHANGED <<way, rate, step, todo>> /\ moved' = moved \cup {d}
    BY <1>11 DEF Move, book, handler
  <2>2. PICK m \in Mids : mid' = [mid EXCEPT ![d] = m]
    BY <1>11 DEF Move
  <2>3. ASSUME NEW c \in Currencies PROVE TrueRate(c)'
    BY <1>1, <2>1, <2>2, <2>3 DEF TrueInv, TrueRate, BookOK
  <2> QED
    BY <2>1, <2>3 DEF TrueInv
<1>12. CASE Weather
  BY <1>12 DEF Weather, TrueInv, TrueRate, book, handler, observers
<1>13. CASE Restart
  BY <1>13 DEF Restart, Fresh, TrueRate
<1>14. CASE UNCHANGED vars
  BY <1>14 DEF vars, TrueInv, TrueRate, book, handler, observers
<1> QED
  BY <1>4, <1>5, <1>6, <1>7, <1>8, <1>9, <1>10, <1>11, <1>12, <1>13, <1>14
  DEF Next, Engine

\* PipValueTrue, the fail-safe of MarketState.pip_value_per_unit: a pair whose
\* quote currency the broker does not quote is never sized, and no rate is
\* upside down.
THEOREM TruePipValues == Spec => []PipValueTrue
<1>1. Init => TrueInv
  BY InitTypes DEF Init, TrueInv, TrueRate
<1>2. TrueInv => PipValueTrue
  BY RatesAssumption
  DEF TrueInv, TrueRate, PipValueTrue, PipValue, RatesAssumption
<1> QED
  BY <1>1, <1>2, TrueStep, PTL DEF Spec

\* ---- the signals ----------------------------------------------------------------

\* ---- the length checks and the bias of the setups ----------------------------

IsWindow == \E S : window \in Seq(S)

\* A window is a sequence, whatever its candles are.
LEMMA WindowIsSequence == WindowSpec => []IsWindow
<1>1. NoCandles => IsWindow
  <2> SUFFICES ASSUME NoCandles PROVE window \in Seq({})
    BY DEF IsWindow
  <2> QED
    BY DEF NoCandles
<1>2. IsWindow /\ [NextCandle]_window => IsWindow'
  <2> SUFFICES ASSUME IsWindow, [NextCandle]_window PROVE IsWindow'
    OBVIOUS
  <2>1. PICK S : window \in Seq(S)
    BY DEF IsWindow
  <2>2. CASE UNCHANGED window
    BY <2>1, <2>2 DEF IsWindow
  <2>3. CASE NextCandle
    <3>1. PICK c : window' = Append(window, c)
      BY <2>3 DEF NextCandle, AddCandle
    <3>2. window \in Seq(S \cup {c})
      BY <2>1
    <3> QED
      BY <3>1, <3>2 DEF IsWindow
  <2> QED
    BY <2>2, <2>3
<1> QED
  BY <1>1, <1>2, PTL DEF WindowSpec

\* An average of as many values as its period asks for is defined.
LEMMA SmoothedDefined ==
    ASSUME NEW values, NEW period, NEW weight, ~(Len(values) < period)
    PROVE  Smoothed(values, period, weight) # <<>>
<1> DEFINE e == FoldLeft(LAMBDA x, v : Plus(Mul(weight, Whole(v)),
                                            Mul(Minus(Whole(1), weight), x)),
                         Frac(Sum(SubSeq(values, 1, period)), period),
                         SubSeq(values, period + 1, Len(values)))
<1>1. Smoothed(values, period, weight) = <<e>>
  BY Zenon DEF Smoothed
<1> HIDE DEF e
<1> QED
  BY <1>1

\* An average of closes takes as many candles as its period.
LEMMA EmaDefined ==
    ASSUME NEW S, NEW w \in Seq(S), NEW period \in Nat, period <= Len(w)
    PROVE  Ema(w, period) # <<>>
<1>1. Len(w) \in Nat /\ DOMAIN w = 1..Len(w)
  OBVIOUS
<1>2. Closes(w) \in Seq({w[n].close : n \in DOMAIN w}) /\ DOMAIN Closes(w) = DOMAIN w
  BY <1>1 DEF Closes
<1>3. Len(Closes(w)) = Len(w)
  BY <1>1, <1>2
<1>4. ~(Len(Closes(w)) < period)
  BY <1>1, <1>3
<1> QED
  BY <1>4, SmoothedDefined, Zenon DEF Ema

\* A true range has a candle before it, so the average takes one more.
LEMMA AtrDefined ==
    ASSUME NEW S, NEW w \in Seq(S), NEW period \in Nat, period + 1 <= Len(w)
    PROVE  Atr(w, period) # <<>>
<1> DEFINE rest == Len(w) - 1
           ranges == [n \in 1..rest |-> TrueRange(w[n].close, w[n + 1])]
<1>1. rest \in Nat /\ period <= rest
  OBVIOUS
<1> HIDE DEF rest
<1>2. /\ ranges \in Seq({TrueRange(w[n].close, w[n + 1]) : n \in 1..rest})
      /\ DOMAIN ranges = 1..rest
  BY <1>1
<1> HIDE DEF ranges
<1>3. ~(Len(ranges) < period)
  BY <1>1, <1>2
<1>4. Smoothed(ranges, period, Frac(1, period)) # <<>>
  BY <1>3, SmoothedDefined, Zenon
<1> QED
  BY <1>4, Zenon DEF Atr, ranges, rest

\* The baseline's windows move on.
LEMMA StepPositive ==
    Max({1, AtrAvgPeriod \div 10}) \in Nat \ {0}
<1> DEFINE tenth == AtrAvgPeriod \div 10
<1>1. tenth \in Nat
  BY SignalsAssumption
<1>2. \E x \in {1, tenth} : \A y \in {1, tenth} : x >= y
  <2>1. CASE tenth <= 1
    BY <1>1, <2>1
  <2>2. CASE ~(tenth <= 1)
    BY <1>1, <2>2
  <2> QED
    BY <2>1, <2>2
<1> HIDE DEF tenth
<1> QED
  <2>1. Max({1, tenth}) \in {1, tenth} /\ Max({1, tenth}) >= 1
    BY <1>2 DEF Max
  <2> QED
    BY <1>1, <2>1 DEF tenth

\* The baseline reads the window up to places that lie in it, with room for
\* the average before the first.
LEMMA EndsInWindow ==
    ASSUME NEW S, NEW w \in Seq(S), RegimeReady(w), NEW n \in DOMAIN Ends(w)
    PROVE  Ends(w)[n] \in (AtrPeriod + 1)..Len(w)
<1> DEFINE stride == Max({1, AtrAvgPeriod \div 10})
           places == AtrAvgPeriod \div stride
<1>1. stride \in Nat \ {0}
  BY StepPositive
<1>2. AtrAvgPeriod \in Nat \ {0} /\ AtrPeriod \in Nat \ {0} /\ Len(w) \in Nat
  BY SignalsAssumption
<1> HIDE DEF stride
<1>3. places \in Nat /\ places * stride <= AtrAvgPeriod
  BY <1>1, <1>2, QuotientType
<1>4. Ends(w) = [k \in 1..(places + 1) |-> Len(w) - AtrAvgPeriod + (k - 1) * stride]
  BY DEF Ends, stride
<1> HIDE DEF places
<1>5. n \in 1..(places + 1)
  BY <1>4
<1>6. (n - 1) * stride \in Nat /\ (n - 1) * stride <= places * stride
  BY <1>1, <1>3, <1>5, TimesMonotone
<1>7. Ends(w)[n] = Len(w) - AtrAvgPeriod + (n - 1) * stride
  BY <1>4, <1>5
<1>8. Len(w) >= AtrAvgPeriod + AtrPeriod + 2
  BY DEF RegimeReady
<1> DEFINE there == (n - 1) * stride
           all == places * stride
<1>9. there \in Nat /\ there <= all /\ all <= AtrAvgPeriod /\ all \in Nat
  BY <1>1, <1>3, <1>6, TimesMonotone
<1>10. Ends(w)[n] = Len(w) - AtrAvgPeriod + there
  BY <1>7
<1> HIDE DEF there, all
<1> QED
  BY <1>2, <1>8, <1>9, <1>10

\* What each length check lets through is defined.
LEMMA AveragesDefined ==
    ASSUME NEW S, NEW w \in Seq(S)
    PROVE  /\ BiasReady(w) => EmaNow(w) # <<>> /\ EmaBefore(w) # <<>>
           /\ RegimeReady(w) => \A n \in DOMAIN Ends(w) : AtrUpTo(w, Ends(w)[n]) # <<>>
           /\ PullbackReady(w) => Ema(w, SetupEma) # <<>> /\ Atr(w, SetupAtr) # <<>>
<1>1. /\ {BiasEma, SlopeLookback, AtrPeriod, SetupEma, SetupAtr} \subseteq Nat
      /\ SetupAtr < SetupEma + 5
      /\ Len(w) \in Nat
  BY SignalsAssumption
<1>2. ASSUME BiasReady(w) PROVE EmaNow(w) # <<>> /\ EmaBefore(w) # <<>>
  <2>1. Len(w) >= BiasEma + SlopeLookback + 1
    BY <1>2 DEF BiasReady
  <2> DEFINE before == SubSeq(w, 1, Len(w) - SlopeLookback)
  <2>2. before \in Seq(S) /\ Len(before) = Len(w) - SlopeLookback
    BY <1>1, <2>1
  <2>3. BiasEma <= Len(before) /\ BiasEma <= Len(w)
    BY <1>1, <2>1, <2>2
  <2> HIDE DEF before
  <2>4. Ema(w, BiasEma) # <<>> /\ Ema(before, BiasEma) # <<>>
    BY <1>1, <2>2, <2>3, EmaDefined
  <2> QED
    BY <2>4 DEF EmaNow, EmaBefore, before
<1>3. ASSUME RegimeReady(w), NEW n \in DOMAIN Ends(w)
      PROVE  AtrUpTo(w, Ends(w)[n]) # <<>>
  <2> DEFINE here == SubSeq(w, 1, Ends(w)[n])
  <2>1. Ends(w)[n] \in (AtrPeriod + 1)..Len(w)
    BY <1>3, EndsInWindow
  <2>2. here \in Seq(S) /\ Len(here) = Ends(w)[n]
    BY <1>1, <2>1
  <2>3. AtrPeriod + 1 <= Len(here)
    BY <1>1, <2>1, <2>2
  <2> HIDE DEF here
  <2>4. Atr(here, AtrPeriod) # <<>>
    BY <1>1, <2>2, <2>3, AtrDefined
  <2> QED
    BY <2>4 DEF AtrUpTo, here
<1>4. ASSUME PullbackReady(w)
      PROVE  Ema(w, SetupEma) # <<>> /\ Atr(w, SetupAtr) # <<>>
  <2>1. SetupEma <= Len(w) /\ SetupAtr + 1 <= Len(w)
    BY <1>1, <1>4 DEF PullbackReady
  <2> QED
    BY <1>1, <2>1, EmaDefined, AtrDefined
<1> QED
  BY <1>2, <1>3, <1>4

\* A signal has the direction it was asked for.
LEMMA StoppedDirection ==
    ASSUME NEW d, NEW c, NEW stop, NEW setup, NEW s \in Stopped(d, c, stop, setup)
    PROVE  s.direction = d
BY DEF Stopped, SignalOf

\* A setup never fires against its bias, whatever the prices are.
LEMMA SetupsFollowBias ==
    ASSUME NEW w, NEW b \in Biases, NEW r \in Regimes, NEW s \in Detect(w, b, r)
    PROVE  /\ b = "LONG_ONLY" => s.direction = 1
           /\ b = "SHORT_ONLY" => s.direction = -1
<1>1. CASE r = "TREND" /\ b # "FLAT"
  <2>1. s \in Pullback(w, b)
    BY <1>1 DEF Detect
  <2>2. CASE b = "LONG_ONLY"
    <3>1. PICK c, ema, tol : s \in LongPullback(w, c, ema, tol)
      BY <2>1, <2>2 DEF Pullback
    <3> QED
      BY <2>2, <3>1, StoppedDirection DEF LongPullback
  <2>3. CASE b = "SHORT_ONLY"
    <3>1. PICK c, ema, tol : s \in ShortPullback(w, c, ema, tol)
      BY <2>1, <2>3 DEF Pullback
    <3> QED
      BY <2>3, <3>1, StoppedDirection DEF ShortPullback
  <2> QED
    BY <1>1, <2>2, <2>3 DEF Biases
<1>2. CASE ~(r = "TREND" /\ b # "FLAT")
  <2>1. s \in LevelRejection(w, b)
    BY <1>2 DEF Detect
  <2>2. PICK c, atr : s \in Fade(c, b, atr)
    BY <2>1 DEF LevelRejection
  <2>3. CASE b = "LONG_ONLY"
    BY <2>2, <2>3, StoppedDirection DEF Fade
  <2>4. CASE b = "SHORT_ONLY"
    BY <2>2, <2>4, StoppedDirection DEF Fade
  <2> QED
    BY <2>3, <2>4
<1> QED
  BY <1>1, <1>2

\* Every decision rests on averages that exist, and none is against its bias,
\* for any periods and any thresholds.
THEOREM Grounded == WindowSpec => []DecisionsGrounded
<1>1. IsWindow => DecisionsGrounded
  <2> SUFFICES ASSUME IsWindow PROVE DecisionsGrounded
    OBVIOUS
  <2>1. PICK S : window \in Seq(S)
    BY DEF IsWindow
  <2>2. /\ BiasReady(window) => EmaNow(window) # <<>> /\ EmaBefore(window) # <<>>
        /\ RegimeReady(window) =>
              \A n \in DOMAIN Ends(window) : AtrUpTo(window, Ends(window)[n]) # <<>>
        /\ PullbackReady(window) =>
              Ema(window, SetupEma) # <<>> /\ Atr(window, SetupAtr) # <<>>
    BY <2>1, AveragesDefined
  <2> QED
    BY <2>2, SetupsFollowBias DEF DecisionsGrounded
<1> QED
  BY <1>1, WindowIsSequence, PTL

\* ---- fractions ------------------------------------------------------------------

Fraction == [num : Int, den : Nat \ {0}]

\* A multiple of a divisor is divided exactly.
LEMMA DividesExactly ==
    ASSUME NEW q \in Nat, NEW a \in Nat \ {0}
    PROVE  (q * a) \div a = q
<1> DEFINE x == q * a
           y == x \div a
<1>1. x \in Nat /\ y \in Int /\ y * a <= x /\ x < (y + 1) * a
  <2>1. x \in Nat
    OBVIOUS
  <2> HIDE DEF x
  <2> QED
    BY <2>1
<1>2. ~(y < q)
  <2> SUFFICES ASSUME y < q PROVE FALSE
    OBVIOUS
  <2> HIDE DEF y
  <2>1. y + 1 <= q /\ y + 1 \in Int
    BY <1>1
  <2>2. (y + 1) * a <= q * a
    BY <2>1, TimesMonotone
  <2> QED
    BY <1>1, <2>2
<1>3. ~(q < y)
  <2> SUFFICES ASSUME q < y PROVE FALSE
    OBVIOUS
  <2> HIDE DEF y
  <2>1. q + 1 <= y
    BY <1>1
  <2>2. (q + 1) * a <= y * a
    BY <1>1, <2>1, TimesMonotone
  <2>3. (q + 1) * a = x + a
    OBVIOUS
  <2> HIDE DEF x
  <2> QED
    BY <1>1, <2>2, <2>3
<1> HIDE DEF y
<1>4. y = q
  BY <1>1, <1>2, <1>3
<1> QED
  BY <1>4 DEF y

\* d is what CommonDen makes of two denominators, j times one and k times the other.
IsCommon(m, n, d, j, k) ==
    /\ d = j * m /\ d = k * n /\ d \div m = j /\ d \div n = k
    /\ \A a, b : a.den = m /\ b.den = n => CommonDen(a, b) = d

\* The common denominator is a multiple of both, the same for the same two.
LEMMA CommonDenIs ==
    ASSUME NEW m \in Nat \ {0}, NEW n \in Nat \ {0}
    PROVE  \E d, j, k \in Nat \ {0} : IsCommon(m, n, d, j, k)
<1>0. /\ m = 1 * m /\ n = 1 * n /\ m \div m = 1 /\ n \div n = 1
  <2>1. m = 1 * m /\ n = 1 * n
    OBVIOUS
  <2> QED
    BY <2>1, DividesExactly
<1>1. CASE m % n = 0
  <2> DEFINE k == m \div n
  <2>1. k \in Nat /\ m = k * n /\ m \div n = k
    BY <1>1
  <2> HIDE DEF k
  <2>2. k # 0
    BY <2>1
  <2>3. \A a, b : a.den = m /\ b.den = n => CommonDen(a, b) = m
    BY <1>1 DEF CommonDen
  <2>4. IsCommon(m, n, m, 1, k)
    BY <1>0, <2>1, <2>3 DEF IsCommon
  <2> QED
    BY <2>1, <2>2, <2>4
<1>2. CASE m % n # 0 /\ n % m = 0
  <2> DEFINE j == n \div m
  <2>1. j \in Nat /\ n = j * m /\ n \div m = j
    BY <1>2
  <2> HIDE DEF j
  <2>2. j # 0
    BY <2>1
  <2>3. \A a, b : a.den = m /\ b.den = n => CommonDen(a, b) = n
    BY <1>2 DEF CommonDen
  <2>4. IsCommon(m, n, n, j, 1)
    BY <1>0, <2>1, <2>3 DEF IsCommon
  <2> QED
    BY <2>1, <2>2, <2>4
<1>3. CASE m % n # 0 /\ n % m # 0
  <2>1. m * n \in Nat \ {0} /\ m * n = n * m
    OBVIOUS
  <2>2. (m * n) \div n = m /\ (n * m) \div m = n
    BY DividesExactly
  <2>3. \A a, b : a.den = m /\ b.den = n => CommonDen(a, b) = m * n
    BY <1>3 DEF CommonDen
  <2> DEFINE d == m * n
  <2>4. d \in Nat \ {0} /\ d = n * m /\ d = m * n /\ d \div m = n /\ d \div n = m
    BY <2>1, <2>2
  <2>5. \A a, b : a.den = m /\ b.den = n => CommonDen(a, b) = d
    BY <2>3
  <2> HIDE DEF d
  <2>6. IsCommon(m, n, d, n, m)
    BY <2>4, <2>5 DEF IsCommon
  <2> QED
    BY <2>4, <2>6
<1> QED
  BY <1>1, <1>2, <1>3

\* Sums and differences of fractions with these denominators are over d.
AddsOver(m, n, d, j, k) ==
    /\ d = j * m /\ d = k * n
    /\ \A a, b : a.den = m /\ b.den = n
          => /\ Plus(a, b) = Frac(a.num * j + b.num * k, d)
             /\ Minus(a, b) = Frac(a.num * j + (-b.num) * k, d)

\* What adding and subtracting make of numerators.
LEMMA PlusIs ==
    ASSUME NEW m \in Nat \ {0}, NEW n \in Nat \ {0}
    PROVE  \E d, j, k \in Nat \ {0} : AddsOver(m, n, d, j, k)
<1>1. PICK d, j, k \in Nat \ {0} : IsCommon(m, n, d, j, k)
  BY CommonDenIs
<1>2. ASSUME NEW a, NEW b, a.den = m, b.den = n
      PROVE  Plus(a, b) = Frac(a.num * j + b.num * k, d)
  BY <1>1, <1>2 DEF Plus, IsCommon
<1>3. ASSUME NEW a, NEW b, a.den = m, b.den = n
      PROVE  Minus(a, b) = Frac(a.num * j + (-b.num) * k, d)
  <2> DEFINE c == Frac(-b.num, b.den)
  <2>1. c.den = n /\ c.num = -b.num
    BY <1>3 DEF Frac
  <2>2. Minus(a, b) = Plus(a, c)
    BY DEF Minus
  <2> HIDE DEF c
  <2> QED
    BY <1>2, <1>3, <2>1, <2>2
<1>4. d = j * m /\ d = k * n
  BY <1>1 DEF IsCommon
<1>5. AddsOver(m, n, d, j, k)
  BY <1>2, <1>3, <1>4 DEF AddsOver
<1> QED
  BY <1>5

\* Fractions are closed under the arithmetic.
LEMMA FractionTypes ==
    /\ \A n \in Int, d \in Nat \ {0} : Frac(n, d) \in Fraction
    /\ \A n \in Int : Whole(n) \in Fraction
    /\ \A a, b \in Fraction : /\ Plus(a, b) \in Fraction /\ Minus(a, b) \in Fraction
                              /\ Mul(a, b) \in Fraction
<1>1. \A n \in Int, d \in Nat \ {0} : Frac(n, d) \in Fraction
  BY DEF Frac, Fraction
<1>2. \A n \in Int : Whole(n) \in Fraction
  BY <1>1 DEF Whole
<1>3. ASSUME NEW a \in Fraction, NEW b \in Fraction
      PROVE  Plus(a, b) \in Fraction /\ Minus(a, b) \in Fraction /\ Mul(a, b) \in Fraction
  <2>1. a.num \in Int /\ b.num \in Int /\ a.den \in Nat \ {0} /\ b.den \in Nat \ {0}
    BY DEF Fraction
  <2>2. PICK d, j, k \in Nat \ {0} :
           /\ Plus(a, b) = Frac(a.num * j + b.num * k, d)
           /\ Minus(a, b) = Frac(a.num * j + (-b.num) * k, d)
    BY <2>1, PlusIs DEF AddsOver
  <2>3. /\ a.num * j + b.num * k \in Int /\ a.num * j + (-b.num) * k \in Int
        /\ a.num * b.num \in Int /\ a.den * b.den \in Nat \ {0}
    BY <2>1
  <2> QED
    BY <1>1, <2>2, <2>3 DEF Mul
<1> QED
  BY <1>1, <1>2, <1>3

\* ---- prices upside down -----------------------------------------------------------

\* Prices turn about a level.
LEMMA AxisType == Axis \in Int /\ FirstPrice \div RoundStep \in Int
<1>1. FirstPrice \in Int /\ RoundStep \in Nat \ {0}
  BY SignalsAssumption
<1>2. FirstPrice \div RoundStep \in Int
  BY <1>1
<1> QED
  BY <1>1, <1>2 DEF Axis

\* f is e upside down.
IsTurned(f, e) ==
    /\ f \in Fraction /\ e \in Fraction /\ f.den = e.den
    /\ f.num = 2 * (Axis * e.den) - e.num

\* A whole price turns into a whole price, and back.
LEMMA TurnedWhole ==
    ASSUME NEW v \in Int
    PROVE  Turned(v) \in Int /\ Turned(Turned(v)) = v /\ IsTurned(Whole(Turned(v)), Whole(v))
<1>1. Axis \in Int
  BY AxisType
<1>2. Turned(v) \in Int /\ Turned(Turned(v)) = v
  BY <1>1 DEF Turned
<1>3. Whole(Turned(v)) \in Fraction /\ Whole(v) \in Fraction
  BY <1>2, FractionTypes
<1> QED
  BY <1>1, <1>2, <1>3 DEF IsTurned, Whole, Frac, Turned

\* Comparisons turn round.
LEMMA TurnedLess ==
    ASSUME NEW e, NEW f, NEW g, NEW h, IsTurned(f, e), IsTurned(h, g)
    PROVE  (Less(f, h) <=> Less(g, e)) /\ (AtMost(f, h) <=> AtMost(g, e))
<1>1. /\ Axis \in Int /\ e.num \in Int /\ g.num \in Int
      /\ e.den \in Nat /\ g.den \in Nat
  BY AxisType DEF IsTurned, Fraction
<1> DEFINE x == Axis * (e.den * g.den)
           y == e.num * g.den
           z == g.num * e.den
<1>2. x \in Int /\ y \in Int /\ z \in Int
  BY <1>1
<1>3. (2 * (Axis * e.den) - e.num) * g.den = 2 * x - y
  BY <1>1
<1>4. (2 * (Axis * g.den) - g.num) * e.den = 2 * x - z
  BY <1>1
<1>5. f.num * h.den = 2 * x - y /\ h.num * f.den = 2 * x - z
  BY <1>3, <1>4 DEF IsTurned
<1> HIDE DEF x, y, z
<1>6. (Less(f, h) <=> 2 * x - y < 2 * x - z) /\ (Less(h, f) <=> 2 * x - z < 2 * x - y)
  BY <1>5 DEF Less
<1>7. (Less(g, e) <=> z < y) /\ (Less(e, g) <=> y < z)
  BY DEF Less, y, z
<1> QED
  BY <1>2, <1>6, <1>7 DEF AtMost

\* Above is below.
LEMMA TurnedShift ==
    ASSUME NEW e, NEW f, IsTurned(f, e), NEW t \in Fraction
    PROVE  IsTurned(Minus(f, t), Plus(e, t)) /\ IsTurned(Plus(f, t), Minus(e, t))
<1>1. /\ Axis \in Int /\ e.num \in Int /\ t.num \in Int
      /\ e.den \in Nat \ {0} /\ t.den \in Nat \ {0}
      /\ e \in Fraction /\ f \in Fraction /\ f.den = e.den
      /\ f.num = 2 * (Axis * e.den) - e.num
  BY AxisType DEF IsTurned, Fraction
<1>2. PICK d, j, k \in Nat \ {0} : AddsOver(e.den, t.den, d, j, k)
  BY <1>1, PlusIs
<1>3. /\ Plus(e, t) = Frac(e.num * j + t.num * k, d)
      /\ Minus(e, t) = Frac(e.num * j + (-t.num) * k, d)
      /\ Plus(f, t) = Frac(f.num * j + t.num * k, d)
      /\ Minus(f, t) = Frac(f.num * j + (-t.num) * k, d)
      /\ d = j * e.den
  BY <1>1, <1>2 DEF AddsOver
<1>4. f.num * j = 2 * (Axis * d) - e.num * j
  <2>1. (2 * (Axis * e.den) - e.num) * j = 2 * (Axis * (j * e.den)) - e.num * j
    BY <1>1, <1>2
  <2> QED
    BY <1>1, <1>3, <2>1
<1> DEFINE p == Axis * d
           x == e.num * j
           y == t.num * k
<1>5. p \in Int /\ x \in Int /\ y \in Int /\ (-t.num) * k = -y
  BY <1>1
<1>6. f.num * j = 2 * p - x
  BY <1>4
<1>7. /\ Plus(e, t) \in Fraction /\ Minus(e, t) \in Fraction
      /\ Plus(f, t) \in Fraction /\ Minus(f, t) \in Fraction
  BY <1>1, FractionTypes
<1> HIDE DEF p, x, y
<1>8. /\ Plus(e, t) = Frac(x + y, d) /\ Minus(e, t) = Frac(x + (-y), d)
      /\ Plus(f, t) = Frac((2 * p - x) + y, d) /\ Minus(f, t) = Frac((2 * p - x) + (-y), d)
  BY <1>3, <1>5, <1>6 DEF x, y
<1>9. (2 * p - x) + (-y) = 2 * p - (x + y) /\ (2 * p - x) + y = 2 * p - (x + (-y))
  BY <1>5
<1>10. /\ Minus(f, t).den = d /\ Plus(e, t).den = d
       /\ Minus(f, t).num = 2 * p - (x + y) /\ Plus(e, t).num = x + y
  BY <1>8, <1>9 DEF Frac
<1>11. /\ Plus(f, t).den = d /\ Minus(e, t).den = d
       /\ Plus(f, t).num = 2 * p - (x + (-y)) /\ Minus(e, t).num = x + (-y)
  BY <1>8, <1>9 DEF Frac
<1> QED
  BY <1>7, <1>10, <1>11 DEF IsTurned, p

\* A value in with its weight.
Blend(weight, v, e) == Plus(Mul(weight, Whole(v)), Mul(Minus(Whole(1), weight), e))

\* A value upside down, into an average upside down.
LEMMA TurnedBlend ==
    ASSUME NEW a \in Int, NEW b \in Nat \ {0}, NEW v \in Int,
           NEW e, NEW f, IsTurned(f, e)
    PROVE  IsTurned(Blend(Frac(a, b), Turned(v), f), Blend(Frac(a, b), v, e))
<1>1. /\ Axis \in Int /\ e.num \in Int /\ e.den \in Nat \ {0}
      /\ e \in Fraction /\ f \in Fraction /\ f.den = e.den
      /\ f.num = 2 * (Axis * e.den) - e.num
  BY AxisType DEF IsTurned, Fraction
<1> DEFINE w == Frac(a, b)
           rest == Minus(Whole(1), w)
           u == Turned(v)
<1>2. u \in Int /\ u = 2 * Axis - v
  BY <1>1 DEF Turned
<1>3. rest.den = b /\ rest.num = b - a
  <2>1. PICK d, j, k \in Nat \ {0} : AddsOver(1, b, d, j, k)
    <3>1. 1 \in Nat \ {0} /\ b \in Nat \ {0}
      OBVIOUS
    <3> HIDE DEF rest, w, u
    <3> QED
      BY <3>1, PlusIs
  <2>2. Whole(1).den = 1 /\ Whole(1).num = 1 /\ w.den = b /\ w.num = a
    BY DEF Whole, Frac
  <2>3. rest = Frac(1 * j + (-a) * k, d) /\ d = j * 1 /\ d = k * b
    BY <2>1, <2>2 DEF AddsOver
  <2>4. CommonDen(Whole(1), Frac(-a, b)) = b
    <3>1. 1 % b = 0 => b = 1
      OBVIOUS
    <3>2. b % 1 = 0
      OBVIOUS
    <3> QED
      BY <2>2, <3>1, <3>2 DEF CommonDen, Frac
  <2>5. rest.den = b
    BY <2>2, <2>4 DEF Minus, Plus, Frac
  <2>6. d = b
    BY <2>3, <2>5 DEF Frac
  <2>7. k = 1 /\ j = b
    <3>1. j = b /\ k * b = 1 * b
      BY <2>3, <2>6
    <3>2. (k * b) \div b = k /\ (1 * b) \div b = 1
      BY DividesExactly
    <3> QED
      BY <3>1, <3>2
  <2>8. 1 * j + (-a) * k = b - a
    BY <2>7
  <2> QED
    BY <2>3, <2>6, <2>8 DEF Frac
<1> DEFINE new(x) == Mul(w, Whole(x))
           prior(x) == Mul(rest, x)
           r == b - a
           n == b * e.den
<1>4. /\ new(v).num = a * v /\ new(v).den = b
      /\ new(u).num = a * u /\ new(u).den = b
  <2>1. b * 1 = b
    OBVIOUS
  <2> QED
    BY <2>1 DEF Mul, Whole, Frac
<1>5. /\ prior(e).num = r * e.num /\ prior(e).den = n
      /\ prior(f).num = r * f.num /\ prior(f).den = n
  BY <1>1, <1>3 DEF Mul, Frac
<1>6. n \in Nat \ {0} /\ r \in Int /\ w \in Fraction /\ rest \in Fraction
  <2>1. w \in Fraction /\ Whole(1) \in Fraction
    BY FractionTypes
  <2> QED
    BY <1>1, <2>1, FractionTypes
<1>7. PICK d, j, k \in Nat \ {0} : AddsOver(b, n, d, j, k)
  BY <1>6, PlusIs
<1>8. /\ Plus(new(v), prior(e)) = Frac((a * v) * j + (r * e.num) * k, d)
      /\ Plus(new(u), prior(f)) = Frac((a * u) * j + (r * f.num) * k, d)
      /\ d = j * b /\ d = k * n
  BY <1>4, <1>5, <1>7 DEF AddsOver
<1>9. Plus(new(v), prior(e)) \in Fraction /\ Plus(new(u), prior(f)) \in Fraction
  <2>1. Whole(v) \in Fraction /\ Whole(u) \in Fraction
    BY <1>2, FractionTypes
  <2>2. new(v) \in Fraction /\ new(u) \in Fraction /\ prior(e) \in Fraction /\ prior(f) \in Fraction
    BY <1>1, <1>6, <2>1, FractionTypes
  <2> QED
    BY <2>2, FractionTypes
<1>10. (a * u) * j + (r * f.num) * k
         = 2 * (Axis * d) - ((a * v) * j + (r * e.num) * k)
  <2>1. j = k * e.den
    <3>1. j * b = (k * e.den) * b
      BY <1>1, <1>8
    <3>2. (j * b) \div b = j /\ ((k * e.den) * b) \div b = k * e.den
      <4>1. k * e.den \in Nat
        BY <1>1
      <4> QED
        BY <4>1, DividesExactly
    <3> QED
      BY <3>1, <3>2
  <2> DEFINE c == e.den
             m == e.num
             p == Axis
  <2>2. c \in Int /\ m \in Int /\ p \in Int /\ k \in Int /\ j = k * c /\ d = k * c * b
    BY <1>1, <1>8, <2>1
  <2>3. u = 2 * p - v /\ f.num = 2 * (p * c) - m
    BY <1>1, <1>2
  <2> HIDE DEF c, m, p, u, n, new, prior, rest, w
  <2>4. (a * (2 * p - v)) * (k * c) + ((b - a) * (2 * (p * c) - m)) * k
          = 2 * (p * (k * c * b)) - ((a * v) * (k * c) + ((b - a) * m) * k)
    BY <2>2
  <2> QED
    BY <2>2, <2>3, <2>4 DEF c, m, p
<1> HIDE DEF new, prior
<1>11. IsTurned(Plus(new(u), prior(f)), Plus(new(v), prior(e)))
  BY <1>8, <1>9, <1>10 DEF IsTurned, Frac
<1> QED
  BY <1>11 DEF Blend, new, prior

\* ---- windows upside down ----------------------------------------------------------

Priced == [open : Int, close : Int, high : Int, low : Int]

\* The greatest and the least of two prices are prices.
LEMMA OfTwo ==
    ASSUME NEW a \in Int, NEW b \in Int
    PROVE  /\ Max({a, b}) \in {a, b} /\ Max({a, b}) >= a /\ Max({a, b}) >= b
           /\ Min({a, b}) \in {a, b} /\ Min({a, b}) <= a /\ Min({a, b}) <= b
<1>1. \E x \in {a, b} : \A y \in {a, b} : x >= y
  <2>1. a <= b \/ b <= a
    OBVIOUS
  <2> QED
    BY <2>1
<1>2. \E x \in {a, b} : \A y \in {a, b} : x <= y
  <2>1. a <= b \/ b <= a
    OBVIOUS
  <2> QED
    BY <2>1
<1>3. Max({a, b}) \in {a, b} /\ \A y \in {a, b} : Max({a, b}) >= y
  BY <1>1 DEF Max
<1>4. Min({a, b}) \in {a, b} /\ \A y \in {a, b} : Min({a, b}) <= y
  BY <1>2 DEF Min
<1> QED
  BY <1>3, <1>4

\* The candles of a window are prices.
LEMMA WindowPriced == WindowSpec => [](window \in Seq(Priced))
<1> DEFINE Ok == window \in Seq(Priced)
<1>1. NoCandles => Ok
  BY DEF NoCandles
<1>2. Ok /\ [NextCandle]_window => Ok'
  <2> SUFFICES ASSUME Ok, [NextCandle]_window PROVE Ok'
    OBVIOUS
  <2>1. CASE UNCHANGED window
    BY <2>1
  <2>2. CASE NextCandle
    <3>1. PICK s \in Shapes : AddCandle(s)
      BY <2>2 DEF NextCandle
    <3> DEFINE before == IF window = <<>> THEN FirstPrice ELSE Last(window).close
               open == before + s.gap
               close == open + s.body
    <3>2. before \in Int
      <4>1. FirstPrice \in Int
        BY SignalsAssumption
      <4>2. ASSUME window # <<>> PROVE Last(window).close \in Int
        <5>1. Len(window) \in 1..Len(window)
          BY <4>2
        <5>2. Last(window) \in Priced
          BY <5>1, ElementOfSeq DEF Last
        <5> QED
          BY <5>2 DEF Priced
      <4> QED
        BY <4>1, <4>2
    <3> HIDE DEF before
    <3>3. s.gap \in Int /\ s.body \in Int /\ s.up \in Int /\ s.down \in Int
      <4>1. s \in [gap : Int, body : Int, up : Nat, down : Nat]
        BY SignalsAssumption, Zenon
      <4> QED
        BY <4>1
    <3>4. open \in Int /\ close \in Int
      BY <3>2, <3>3
    <3> HIDE DEF open, close
    <3>5. Max({open, close}) \in Int /\ Min({open, close}) \in Int
      BY <3>4, OfTwo
    <3>6. Shaped(before, s) \in Priced
      <4>1. Shaped(before, s) = [open |-> open, close |-> close,
                                 high |-> Max({open, close}) + s.up,
                                 low |-> Min({open, close}) - s.down]
        BY DEF Shaped, open, close
      <4> QED
        BY <3>3, <3>4, <3>5, <4>1 DEF Priced
    <3>7. window' = Append(window, Shaped(before, s))
      BY <3>1 DEF AddCandle, before
    <3> QED
      BY <3>6, <3>7
  <2> QED
    BY <2>1, <2>2
<1> QED
  BY <1>1, <1>2, PTL DEF WindowSpec

\* A candle upside down is a candle, and twice is once nothing.
LEMMA MirrorOfCandle ==
    ASSUME NEW c \in Priced
    PROVE  MirrorOf(c) \in Priced /\ MirrorOf(MirrorOf(c)) = c
<1>1. c.open \in Int /\ c.close \in Int /\ c.high \in Int /\ c.low \in Int
  BY DEF Priced
<1>2. \A v \in Int : Turned(v) \in Int /\ Turned(Turned(v)) = v
  BY TurnedWhole
<1>3. MirrorOf(c) \in Priced
  BY <1>1, <1>2 DEF MirrorOf, Priced
<1>4. MirrorOf(MirrorOf(c)) = [open |-> c.open, close |-> c.close, high |-> c.high, low |-> c.low]
  BY <1>1, <1>2 DEF MirrorOf
<1>5. c = [open |-> c.open, close |-> c.close, high |-> c.high, low |-> c.low]
  BY DEF Priced
<1> QED
  BY <1>3, <1>4, <1>5

\* And so for a window.
LEMMA MirrorWindow ==
    ASSUME NEW w \in Seq(Priced)
    PROVE  /\ Mirror(w) \in Seq(Priced) /\ Len(Mirror(w)) = Len(w)
           /\ Mirror(Mirror(w)) = w
           /\ \A n \in 1..Len(w) : w[n] \in Priced /\ Mirror(w)[n] = MirrorOf(w[n])
<1>1. /\ DOMAIN w = 1..Len(w) /\ Len(w) \in Nat
      /\ \A n \in 1..Len(w) : w[n] \in Priced
  BY ElementOfSeq
<1>2. \A n \in 1..Len(w) : MirrorOf(w[n]) \in Priced /\ MirrorOf(MirrorOf(w[n])) = w[n]
  BY <1>1, MirrorOfCandle
<1>3. Mirror(w) = [n \in 1..Len(w) |-> MirrorOf(w[n])]
  BY <1>1 DEF Mirror
<1>4. Mirror(w) \in Seq(Priced) /\ Len(Mirror(w)) = Len(w)
  BY <1>1, <1>2, <1>3
<1>5. Mirror(Mirror(w)) = [n \in 1..Len(w) |-> w[n]]
  <2>1. DOMAIN Mirror(w) = 1..Len(w)
    BY <1>3
  <2> QED
    BY <1>2, <1>3, <2>1 DEF Mirror
<1>6. w = [n \in 1..Len(w) |-> w[n]]
  BY <1>1
<1> QED
  BY <1>1, <1>3, <1>4, <1>5, <1>6

\* A part of a window upside down is that part upside down.
LEMMA MirrorPart ==
    ASSUME NEW w \in Seq(Priced), NEW m \in Int, NEW n \in Int, 1 <= m, n <= Len(w)
    PROVE  SubSeq(Mirror(w), m, n) = Mirror(SubSeq(w, m, n))
<1>1. /\ DOMAIN w = 1..Len(w) /\ Len(w) \in Nat
  OBVIOUS
<1>2. Mirror(w) = [k \in 1..Len(w) |-> MirrorOf(w[k])]
  BY <1>1 DEF Mirror
<1>3. Len(Mirror(w)) = Len(w)
  BY MirrorWindow
<1> DEFINE here == SubSeq(w, m, n)
           there == SubSeq(Mirror(w), m, n)
           size == IF m <= n THEN n - m + 1 ELSE 0
<1>4. size \in Nat
  OBVIOUS
<1>5. Mirror(w) \in Seq(Priced)
  BY MirrorWindow
<1>6. /\ here = [k \in 1..(n - m + 1) |-> w[m + k - 1]]
      /\ there = [k \in 1..(n - m + 1) |-> Mirror(w)[m + k - 1]]
  BY <1>1, <1>5 
<1>7. ASSUME NEW k \in 1..(n - m + 1) PROVE there[k] = MirrorOf(here[k])
  <2>1. m + k - 1 \in 1..Len(w)
    BY <1>1
  <2> QED
    BY <1>2, <1>6, <2>1
<1>8. DOMAIN here = 1..(n - m + 1)
  BY <1>6
<1> HIDE DEF here, there
<1> QED
  BY <1>6, <1>7, <1>8 DEF Mirror, here, there

\* ---- averages upside down ---------------------------------------------------------

\* A loop over a list takes its last place last.
LEMMA LastPlace ==
    ASSUME NEW n \in Nat, NEW S \in SUBSET (1..n), S # {}
    PROVE  Max(S) \in S
<1>1. \E x \in S : \A y \in S : x >= y
  <2>1. S \in SUBSET (0..n)
    OBVIOUS
  <2> QED
    BY <2>1, GreatestMember
<1> QED
  BY <1>1 DEF Max

Later(values, period) == SubSeq(values, period + 1, Len(values))
SeedOf(values, period) == Frac(Sum(SubSeq(values, 1, period)), period)

\* g[S] is the average after the values at the places S.
Averages(g, values, period, weight) ==
    LET later == Later(values, period)
        D == 1..Len(later)
    IN  /\ g \in [SUBSET D -> Fraction]
        /\ g[{}] = SeedOf(values, period)
        /\ \A S \in SUBSET D :
              S # {} => g[S] = Blend(weight, later[Max(S)], g[S \ {Max(S)}])
        /\ Smoothed(values, period, weight) = <<g[D]>>

\* The lists an average is made of.
LEMMA PartsOfValues ==
    ASSUME NEW values \in Seq(Int), NEW period \in Nat \ {0}, period <= Len(values)
    PROVE  /\ Later(values, period) \in Seq(Int)
           /\ Len(Later(values, period)) = Len(values) - period
           /\ \A n \in 1..(Len(values) - period) :
                 Later(values, period)[n] = values[period + n]
           /\ SubSeq(values, 1, period) \in Seq(Int)
           /\ Len(SubSeq(values, 1, period)) = period
           /\ \A n \in 1..period : SubSeq(values, 1, period)[n] = values[n]
           /\ SeedOf(values, period) \in Fraction
<1> DEFINE m == Len(values)
           later == SubSeq(values, period + 1, m)
           start == SubSeq(values, 1, period)
<1>1. m \in Nat /\ period <= m /\ DOMAIN values = 1..m /\ \A n \in 1..m : values[n] \in Int
  BY ElementOfSeq
<1>2. /\ later \in Seq(Int) /\ Len(later) = m - period
      /\ \A n \in 1..(m - period) : later[n] = values[period + n]
  <2>1. later = [n \in 1..(m - period) |-> values[period + n]]
    OBVIOUS
  <2>2. \A n \in 1..(m - period) : period + n \in 1..m
    BY <1>1
  <2>3. m - period \in Nat
    BY <1>1
  <2> HIDE DEF later, m
  <2> QED
    BY <1>1, <2>1, <2>2, <2>3
<1>3. /\ start \in Seq(Int) /\ Len(start) = period
      /\ \A n \in 1..period : start[n] = values[n]
  <2>1. start = [n \in 1..period |-> values[n]]
    OBVIOUS
  <2>2. \A n \in 1..period : n \in 1..m
    BY <1>1
  <2> HIDE DEF start, m
  <2> QED
    BY <1>1, <2>1, <2>2
<1>4. Sum(start) \in Int
  <2> HIDE DEF start
  <2>1. ListSum(start) \in Int
    BY <1>3, ListSumType
  <2> QED
    BY <2>1 DEF Sum, ListSum
<1>5. SeedOf(values, period) \in Fraction
  BY <1>4, FractionTypes DEF SeedOf
<1> QED
  BY <1>2, <1>3, <1>5 DEF Later

\* A smoothed average is a fraction, made value by value.
LEMMA SmoothedIs ==
    ASSUME NEW values \in Seq(Int), NEW period \in Nat \ {0}, period <= Len(values),
           NEW weight \in Fraction
    PROVE  \E g : Averages(g, values, period, weight)
<1> DEFINE later == Later(values, period)
           D == 1..Len(later)
           base == SeedOf(values, period)
           first == [S \in SUBSET D |-> Max(S)]
           stride == [n \in D |-> [e \in Fraction |-> Blend(weight, later[n], e)]]
           Step(g) == [S \in SUBSET D |->
                         IF S = {} THEN base
                         ELSE LET n == Max(S)
                              IN  Plus(Mul(weight, Whole(later[n])),
                                       Mul(Minus(Whole(1), weight), g[S \ {n}]))]
           all == CHOOSE g : g = Step(g)
<1>1. /\ later \in Seq(Int) /\ Len(later) \in Nat /\ DOMAIN later = D /\ IsFiniteSet(D)
      /\ base \in Fraction /\ \A n \in D : later[n] \in Int
  <2>1. later \in Seq(Int) /\ base \in Fraction
    BY PartsOfValues
  <2> HIDE DEF later, base
  <2> QED
    BY <2>1, LenProperties, FS_Interval, ElementOfSeq
<1>2. Takes(first, D)
  <2> HIDE DEF later
  <2> QED
    BY <1>1, LastPlace DEF Takes
<1>3. ASSUME NEW n \in D, NEW e \in Fraction PROVE Blend(weight, later[n], e) \in Fraction
  <2> HIDE DEF later
  <2>1. later[n] \in Int
    BY <1>1
  <2>2. /\ Whole(later[n]) \in Fraction /\ Whole(1) \in Fraction
    BY <2>1, FractionTypes
  <2>3. Mul(weight, Whole(later[n])) \in Fraction /\ Minus(Whole(1), weight) \in Fraction
    BY <2>2, FractionTypes
  <2>4. Mul(Minus(Whole(1), weight), e) \in Fraction
    BY <2>3, FractionTypes
  <2> QED
    BY <2>3, <2>4, FractionTypes DEF Blend
<1>4. \A n \in D : \A e \in Fraction :
         stride[n][e] = Blend(weight, later[n], e) /\ stride[n][e] \in Fraction
  BY <1>3
<1>5. PICK g \in [SUBSET D -> Fraction] : Folded(g, base, stride, first, SUBSET D)
  <2> HIDE DEF later, base, stride, first, D
  <2> QED
    BY <1>1, <1>2, <1>4, FoldHasSolution
<1>6. ASSUME NEW S \in SUBSET D, S # {}
      PROVE  g[S] = Blend(weight, later[Max(S)], g[S \ {Max(S)}])
  <2>1. first[S] = Max(S) /\ Max(S) \in D /\ S \ {Max(S)} \in SUBSET D
    BY <1>2, <1>6 DEF Takes
  <2>2. g[S] = stride[Max(S)][g[S \ {Max(S)}]]
    <3> HIDE DEF stride
    <3> QED
      BY <1>5, <1>6, <2>1 DEF Folded
  <2>3. g[S \ {Max(S)}] \in Fraction
    BY <1>5, <2>1
  <2> HIDE DEF later, stride
  <2> QED
    BY <1>4, <2>1, <2>2, <2>3
<1>7. g[{}] = base
  BY <1>5 DEF Folded
<1>8. g = Step(g)
  <2>1. g = [S \in SUBSET D |-> g[S]]
    BY <1>5
  <2>2. \A S \in SUBSET D : g[S] = IF S = {} THEN base
                         ELSE LET n == Max(S)
                              IN  Plus(Mul(weight, Whole(later[n])),
                                       Mul(Minus(Whole(1), weight), g[S \ {n}]))
    <3> HIDE DEF later, base
    <3> QED
      BY <1>6, <1>7 DEF Blend
  <2> HIDE DEF later, base
  <2> QED
    BY <2>1, <2>2
<1>9. all = Step(all)
  <2> HIDE DEF later, base
  <2> QED
    BY <1>8
<1>10. Smoothed(values, period, weight) = <<all[D]>>
  <2>1. ~(Len(values) < period)
    OBVIOUS
  <2>2. DOMAIN SubSeq(values, period + 1, Len(values)) = D
    BY <1>1 DEF Later
  <2> QED
    BY <2>1, <2>2 DEF Smoothed, FoldLeft, MapThenFoldSet, Later, SeedOf
<1>11. all[{}] = base
  <2> HIDE DEF all, later, base
  <2> QED
    BY <1>9
<1>12. ASSUME NEW S \in SUBSET D, S # {}
       PROVE  all[S] = Blend(weight, later[Max(S)], all[S \ {Max(S)}])
  <2> HIDE DEF all, later, base
  <2> QED
    BY <1>9, <1>12 DEF Blend
<1>13. ASSUME NEW S \in SUBSET D PROVE all[S] \in Fraction
  <2> DEFINE Wrong == {T \in SUBSET D : all[T] \notin Fraction}
  <2> HIDE DEF all, later, base
  <2>1. ASSUME NEW T \in Wrong, \A x \in T : T \ {x} \notin Wrong PROVE FALSE
    <3>1. T \in SUBSET D /\ T # {}
      BY <1>1, <1>11, <2>1
    <3>2. Max(T) \in T
      BY <1>1, <3>1, LastPlace
    <3>3. all[T \ {Max(T)}] \in Fraction
      BY <2>1, <3>1, <3>2
    <3>4. all[T] \in Fraction
      <4>1. all[T] = Blend(weight, later[Max(T)], all[T \ {Max(T)}])
        BY <1>12, <3>1
      <4>2. Max(T) \in D
        BY <3>1, <3>2
      <4> QED
        BY <1>3, <3>3, <4>1, <4>2
    <3> QED
      BY <2>1, <3>4
  <2>2. Wrong = {}
    <3>1. Wrong \in SUBSET SUBSET D
      OBVIOUS
    <3> HIDE DEF Wrong
    <3> QED
      BY <1>1, <2>1, <3>1, SmallestSet
  <2> QED
    BY <2>2
<1>14. all \in [SUBSET D -> Fraction]
  <2> HIDE DEF later, base
  <2>1. all = [S \in SUBSET D |-> all[S]]
    <3> HIDE DEF all
    <3> QED
      BY <1>9
  <2> HIDE DEF all
  <2> QED
    BY <1>13, <2>1
<1> HIDE DEF all, base
<1>15. Averages(all, values, period, weight)
  BY <1>10, <1>11, <1>12, <1>14 DEF Averages, base
<1> QED
  BY <1>15

\* Lists of prices, one upside down.
TurnedValues(others, values) ==
    /\ values \in Seq(Int) /\ others \in Seq(Int) /\ Len(others) = Len(values)
    /\ \A n \in 1..Len(values) : others[n] = Turned(values[n])

\* The sum of prices upside down.
LEMMA SumOfTurned ==
    ASSUME NEW values, NEW others, TurnedValues(others, values)
    PROVE  /\ Sum(values) \in Int /\ Sum(others) \in Int
           /\ Sum(others) = 2 * (Axis * Len(values)) - Sum(values)
<1> DEFINE D == 1..Len(values)
           here == [n \in D |-> values[n]]
           there == [n \in D |-> others[n]]
<1>1. /\ values \in Seq(Int) /\ others \in Seq(Int) /\ Len(others) = Len(values)
      /\ Len(values) \in Nat /\ IsFiniteSet(D) /\ Cardinality(D) = Len(values)
      /\ Axis \in Int
  <2>1. values \in Seq(Int) /\ others \in Seq(Int) /\ Len(others) = Len(values)
    BY DEF TurnedValues
  <2>2. Len(values) \in Nat
    BY <2>1, LenProperties
  <2>3. IsFiniteSet(D) /\ Cardinality(D) = Len(values)
    <3>1. 1 \in Int /\ Len(values) \in Int
      BY <2>2
    <3>2. /\ IsFiniteSet(1..Len(values))
          /\ Cardinality(1..Len(values)) =
                IF 1 > Len(values) THEN 0 ELSE Len(values) - 1 + 1
      BY <3>1, FS_Interval
    <3> QED
      BY <2>2, <3>2
  <2> QED
    BY <2>1, <2>2, <2>3, AxisType
<1>2. PICK g : IsSum(g, here, D) /\ ListSum(values) = g[D]
  BY <1>1, ListSumIsSum
<1>3. PICK h : IsSum(h, there, D) /\ ListSum(others) = h[D]
  BY <1>1, ListSumIsSum
<1>4. \A S \in SUBSET D : IsFiniteSet(S) /\ Cardinality(S) \in Nat
  BY <1>1, FS_Subset, FS_CardinalityType
<1> DEFINE Wrong == {S \in SUBSET D : h[S] # 2 * (Axis * Cardinality(S)) - g[S]}
<1>5. ASSUME NEW S \in Wrong, \A x \in S : S \ {x} \notin Wrong PROVE FALSE
  <2>0. S \in SUBSET D
    OBVIOUS
  <2>1. S # {}
    <3> SUFFICES ASSUME S = {} PROVE FALSE
      OBVIOUS
    <3>1. Cardinality(S) = 0
      BY FS_EmptySet
    <3>2. g[S] = 0 /\ h[S] = 0
      BY <1>2, <1>3 DEF IsSum
    <3>3. Axis * 0 = 0
      BY <1>1
    <3>4. h[S] # 2 * (Axis * Cardinality(S)) - g[S]
      OBVIOUS
    <3> QED
      BY <3>1, <3>2, <3>3, <3>4
  <2>2. PICK x \in S : TRUE
    BY <2>1
  <2> DEFINE R == S \ {x}
             k == Cardinality(R)
  <2>3. R \in SUBSET D /\ R \notin Wrong /\ x \in D
    BY <1>5, <2>0
  <2>4. Cardinality(S) = k + 1 /\ k \in Nat
    <3>1. IsFiniteSet(S) /\ Cardinality(S) \in Nat
      BY <1>4, <2>0
    <3>2. k = Cardinality(S) - 1
      BY <3>1, FS_RemoveElement
    <3> QED
      BY <1>4, <2>3, <3>1, <3>2
  <2>5. g[S] = here[x] + g[R] /\ h[S] = there[x] + h[R]
    <3> HIDE DEF here, there, D
    <3> QED
      BY <1>2, <1>3, <2>0 DEF IsSum
  <2>6. here[x] = values[x] /\ there[x] = Turned(values[x]) /\ values[x] \in Int
    BY <1>1, <2>3, ElementOfSeq DEF TurnedValues
  <2>7. g[R] \in Int /\ h[R] \in Int
    <3> HIDE DEF here, there, D
    <3> QED
      BY <1>2, <1>3, <2>3 DEF IsSum
  <2>8. h[R] = 2 * (Axis * k) - g[R]
    BY <2>3
  <2>9. h[S] # 2 * (Axis * Cardinality(S)) - g[S]
    OBVIOUS
  <2>10. Turned(values[x]) = 2 * Axis - values[x]
    BY DEF Turned
  <2> DEFINE v == values[x]
             p == Axis
  <2>11. 2 * (p * (k + 1)) = 2 * p + 2 * (p * k)
    BY <1>1, <2>4
  <2> DEFINE y == p * k
             z == p * (k + 1)
  <2>12. y \in Int /\ z \in Int /\ 2 * z = 2 * p + 2 * y
    BY <1>1, <2>4, <2>11
  <2>13. h[R] = 2 * y - g[R] /\ h[S] # 2 * z - g[S]
    BY <2>4, <2>8, <2>9
  <2> HIDE DEF y, z, v, R, k, Wrong, D
  <2>14. v \in Int /\ h[S] = (2 * p - v) + h[R] /\ g[S] = v + g[R]
    BY <2>5, <2>6, <2>10 DEF v
  <2> QED
    BY <1>1, <2>7, <2>12, <2>13, <2>14
<1>6. Wrong = {}
  <2>1. Wrong \in SUBSET SUBSET D
    OBVIOUS
  <2> HIDE DEF Wrong
  <2> QED
    BY <1>1, <1>5, <2>1, SmallestSet
<1>7. h[D] = 2 * (Axis * Cardinality(D)) - g[D]
  BY <1>6
<1>8. g[D] \in Int /\ h[D] \in Int
  BY <1>2, <1>3 DEF IsSum
<1>9. Sum(values) = ListSum(values) /\ Sum(others) = ListSum(others)
  BY DEF Sum, ListSum
<1> HIDE DEF D, here, there
<1> QED
  BY <1>1, <1>2, <1>3, <1>7, <1>8, <1>9

\* Both undefined, or one the other upside down.
TurnedPair(y, x) ==
    \/ x = <<>> /\ y = <<>>
    \/ \E e, f : x = <<e>> /\ y = <<f>> /\ IsTurned(f, e)

\* The average of prices upside down is their average upside down.
LEMMA SmoothedTurned ==
    ASSUME NEW values, NEW others, TurnedValues(others, values),
           NEW period \in Nat \ {0}, NEW a \in Int, NEW b \in Nat \ {0}
    PROVE  TurnedPair(Smoothed(others, period, Frac(a, b)),
                      Smoothed(values, period, Frac(a, b)))
<1>1. /\ values \in Seq(Int) /\ others \in Seq(Int) /\ Len(others) = Len(values)
      /\ Len(values) \in Nat
      /\ \A n \in 1..Len(values) : others[n] = Turned(values[n])
  BY LenProperties DEF TurnedValues
<1>2. CASE Len(values) < period
  BY <1>1, <1>2 DEF Smoothed, TurnedPair
<1>3. CASE ~(Len(values) < period)
  <2>1. period <= Len(values) /\ period <= Len(others)
    BY <1>1, <1>3
  <2> DEFINE weight == Frac(a, b)
             later == Later(values, period)
             after == Later(others, period)
             D == 1..Len(later)
  <2>2. weight \in Fraction
    BY FractionTypes
  <2>3. PICK g : Averages(g, values, period, weight)
    BY <1>1, <2>1, <2>2, SmoothedIs
  <2>4. PICK h : Averages(h, others, period, weight)
    BY <1>1, <2>1, <2>2, SmoothedIs
  <2>5. /\ later \in Seq(Int) /\ after \in Seq(Int) /\ Len(after) = Len(later)
        /\ Len(later) \in Nat
        /\ \A n \in D : later[n] \in Int /\ after[n] = Turned(later[n])
    <3>1. later \in Seq(Int) /\ Len(later) = Len(values) - period
      BY <1>1, <2>1, PartsOfValues
    <3>2. after \in Seq(Int) /\ Len(after) = Len(values) - period
      BY <1>1, <2>1, PartsOfValues
    <3>3. ASSUME NEW n \in 1..(Len(values) - period)
          PROVE  later[n] = values[period + n] /\ after[n] = others[period + n]
      <4>1. \A k \in 1..(Len(values) - period) : later[k] = values[period + k]
        BY <1>1, <2>1, PartsOfValues
      <4>2. \A k \in 1..(Len(others) - period) : after[k] = others[period + k]
        BY <1>1, <2>1, PartsOfValues
      <4> HIDE DEF later, after
      <4> QED
        BY <1>1, <4>1, <4>2
    <3> HIDE DEF later, after
    <3>4. Len(later) \in Nat
      BY <3>1, LenProperties
    <3>5. ASSUME NEW n \in D PROVE later[n] \in Int /\ after[n] = Turned(later[n])
      <4>1. n \in 1..(Len(values) - period) /\ period + n \in 1..Len(values)
        BY <1>1, <3>1
      <4> QED
        BY <1>1, <3>1, <3>3, <4>1, ElementOfSeq
    <3> QED
      BY <3>1, <3>2, <3>4, <3>5
  <2>6. IsTurned(SeedOf(others, period), SeedOf(values, period))
    <3> DEFINE start == SubSeq(values, 1, period)
               begin == SubSeq(others, 1, period)
    <3>1. /\ start \in Seq(Int) /\ Len(start) = period
          /\ \A n \in 1..period : start[n] = values[n]
          /\ SeedOf(values, period) \in Fraction
      BY <1>1, <2>1, PartsOfValues
    <3>2. /\ begin \in Seq(Int) /\ Len(begin) = period
          /\ \A n \in 1..period : begin[n] = others[n]
          /\ SeedOf(others, period) \in Fraction
      BY <1>1, <2>1, PartsOfValues
    <3>3. TurnedValues(begin, start)
      <4>1. \A n \in 1..period : n \in 1..Len(values)
        BY <1>1, <2>1
      <4> HIDE DEF start, begin
      <4> QED
        BY <1>1, <3>1, <3>2, <4>1 DEF TurnedValues
    <3>4. /\ SeedOf(values, period) = Frac(Sum(start), period)
          /\ SeedOf(others, period) = Frac(Sum(begin), period)
      BY DEF SeedOf
    <3> HIDE DEF start, begin
    <3>5. Sum(begin) = 2 * (Axis * period) - Sum(start)
      BY <3>1, <3>3, SumOfTurned
    <3> QED
      BY <3>1, <3>2, <3>4, <3>5 DEF IsTurned, Frac
  <2>7. /\ g[{}] = SeedOf(values, period) /\ h[{}] = SeedOf(others, period)
        /\ Smoothed(values, period, weight) = <<g[D]>>
        /\ Smoothed(others, period, weight) = <<h[D]>>
    <3> HIDE DEF weight, later, after
    <3> QED
      BY <2>3, <2>4, <2>5 DEF Averages, later, after
  <2>8. ASSUME NEW S \in SUBSET D, S # {}
        PROVE  /\ g[S] = Blend(weight, later[Max(S)], g[S \ {Max(S)}])
               /\ h[S] = Blend(weight, after[Max(S)], h[S \ {Max(S)}])
    <3>1. S \in SUBSET (1..Len(after))
      BY <2>5
    <3> QED
      BY <2>3, <2>4, <2>8, <3>1 DEF Averages
  <2> DEFINE Wrong == {S \in SUBSET D : ~IsTurned(h[S], g[S])}
  <2>9. ASSUME NEW S \in Wrong, \A x \in S : S \ {x} \notin Wrong PROVE FALSE
    <3>1. S \in SUBSET D /\ ~IsTurned(h[S], g[S])
      OBVIOUS
    <3> HIDE DEF later, after, weight
    <3>2. S # {}
      BY <2>6, <2>7, <3>1
    <3> DEFINE n == Max(S)
    <3>3. n \in S /\ n \in D
      BY <2>5, <3>1, <3>2, LastPlace
    <3>4. IsTurned(h[S \ {n}], g[S \ {n}])
      BY <2>9, <3>1, <3>3
    <3>5. later[n] \in Int /\ after[n] = Turned(later[n])
      BY <2>5, <3>3
    <3>6. /\ g[S] = Blend(weight, later[n], g[S \ {n}])
          /\ h[S] = Blend(weight, after[n], h[S \ {n}])
      BY <2>8, <3>1, <3>2
    <3> HIDE DEF n, D, Wrong
    <3>7. IsTurned(Blend(weight, after[n], h[S \ {n}]), Blend(weight, later[n], g[S \ {n}]))
      BY <3>4, <3>5, TurnedBlend DEF weight
    <3> QED
      BY <3>1, <3>6, <3>7
  <2>10. Wrong = {}
    <3>1. Wrong \in SUBSET SUBSET D /\ IsFiniteSet(D)
      BY <2>5, FS_Interval
    <3> HIDE DEF Wrong, D
    <3> QED
      BY <2>9, <3>1, SmallestSet
  <2>11. IsTurned(h[D], g[D])
    BY <2>10
  <2> HIDE DEF D
  <2> QED
    BY <2>7, <2>11 DEF TurnedPair
<1> QED
  BY <1>2, <1>3

\* The prices of a candle upside down.
LEMMA MirrorFields ==
    ASSUME NEW c
    PROVE  /\ MirrorOf(c).open = Turned(c.open) /\ MirrorOf(c).close = Turned(c.close)
           /\ MirrorOf(c).high = Turned(c.low) /\ MirrorOf(c).low = Turned(c.high)
BY DEF MirrorOf

\* The closes of a window.
LEMMA ClosesTurned ==
    ASSUME NEW w \in Seq(Priced)
    PROVE  TurnedValues(Closes(Mirror(w)), Closes(w))
<1>1. /\ Len(w) \in Nat /\ DOMAIN w = 1..Len(w)
      /\ \A n \in 1..Len(w) : w[n] \in Priced
  BY ElementOfSeq
<1>2. /\ Mirror(w) \in Seq(Priced) /\ Len(Mirror(w)) = Len(w)
      /\ \A n \in 1..Len(w) : Mirror(w)[n] = MirrorOf(w[n])
  BY MirrorWindow
<1>3. DOMAIN Mirror(w) = 1..Len(w)
  BY <1>2
<1>4. /\ Closes(w) = [n \in 1..Len(w) |-> w[n].close]
      /\ Closes(Mirror(w)) = [n \in 1..Len(w) |-> Mirror(w)[n].close]
  BY <1>1, <1>3 DEF Closes
<1>5. ASSUME NEW n \in 1..Len(w)
      PROVE  /\ w[n].close \in Int /\ Mirror(w)[n].close = Turned(w[n].close)
             /\ Turned(w[n].close) \in Int
  <2>1. w[n].close \in Int
    BY <1>1 DEF Priced
  <2>2. Mirror(w)[n].close = Turned(w[n].close)
    <3>1. Mirror(w)[n] = MirrorOf(w[n])
      BY <1>2
    <3> QED
      BY <3>1, MirrorFields
  <2>3. Turned(w[n].close) \in Int
    BY <2>1, TurnedWhole
  <2> QED
    BY <2>1, <2>2, <2>3
<1> HIDE DEF Closes
<1>6. /\ Closes(w) \in Seq(Int) /\ Len(Closes(w)) = Len(w)
  BY <1>1, <1>4, <1>5
<1>7. /\ Closes(Mirror(w)) \in Seq(Int) /\ Len(Closes(Mirror(w))) = Len(w)
  BY <1>1, <1>4, <1>5
<1> QED
  BY <1>4, <1>5, <1>6, <1>7 DEF TurnedValues

\* The average of closes, upside down.
LEMMA EmaTurned ==
    ASSUME NEW w \in Seq(Priced), NEW period \in Nat \ {0}
    PROVE  TurnedPair(Ema(Mirror(w), period), Ema(w, period))
<1>1. 2 \in Int /\ period + 1 \in Nat \ {0}
  OBVIOUS
<1> QED
  BY <1>1, ClosesTurned, SmoothedTurned DEF Ema

\* ---- the regime upside down -------------------------------------------------------

\* Distances stay.
LEMMA TurnedDistance ==
    ASSUME NEW a \in Int, NEW b \in Int
    PROVE  /\ Distance(Turned(a), Turned(b)) = Distance(a, b) /\ Distance(a, b) \in Int
           /\ Turned(a) - Turned(b) = b - a
           /\ (Turned(a) < Turned(b) <=> b < a) /\ (Turned(a) <= Turned(b) <=> b <= a)
<1>1. Axis \in Int
  BY AxisType
<1>2. Turned(a) = 2 * Axis - a /\ Turned(b) = 2 * Axis - b
  BY DEF Turned
<1> QED
  BY <1>1, <1>2 DEF Distance

\* And so do the ranges of a candle.
LEMMA TurnedRanges ==
    ASSUME NEW c \in Priced, NEW before \in Int
    PROVE  /\ Extent(MirrorOf(c)) = Extent(c) /\ Extent(c) \in Int
           /\ BodyRatio(MirrorOf(c)) = BodyRatio(c)
           /\ TrueRange(Turned(before), MirrorOf(c)) = TrueRange(before, c)
           /\ TrueRange(before, c) \in Int
<1>1. c.open \in Int /\ c.close \in Int /\ c.high \in Int /\ c.low \in Int
  BY DEF Priced
<1> DEFINE m == MirrorOf(c)
<1>2. /\ m.open = Turned(c.open) /\ m.close = Turned(c.close)
      /\ m.high = Turned(c.low) /\ m.low = Turned(c.high)
  BY MirrorFields
<1> HIDE DEF m
<1>3. Extent(m) = Extent(c) /\ Extent(c) \in Int
  <2>1. Turned(c.low) - Turned(c.high) = c.high - c.low
    BY <1>1, TurnedDistance
  <2>2. Extent(m) = Turned(c.low) - Turned(c.high)
    BY <1>2 DEF Extent
  <2>3. Extent(c) = c.high - c.low
    BY DEF Extent
  <2> QED
    BY <1>1, <2>1, <2>2, <2>3
<1>4. Distance(m.close, m.open) = Distance(c.close, c.open)
  BY <1>1, <1>2, TurnedDistance
<1>5. BodyRatio(m) = BodyRatio(c)
  BY <1>3, <1>4 DEF BodyRatio
<1> DEFINE x == Extent(c)
           y == Distance(c.high, before)
           z == Distance(c.low, before)
<1>6. x \in Int /\ y \in Int /\ z \in Int
  BY <1>1, <1>3, TurnedDistance
<1>7. /\ Distance(m.high, Turned(before)) = z
      /\ Distance(m.low, Turned(before)) = y
  BY <1>1, <1>2, TurnedDistance
<1>8. TrueRange(before, c) = Max({x, y, z})
  BY DEF TrueRange
<1>9. TrueRange(Turned(before), m) = Max({x, z, y})
  BY <1>3, <1>7 DEF TrueRange
<1> HIDE DEF x, y, z
<1>10. {x, z, y} = {x, y, z}
  OBVIOUS
<1>11. Max({x, y, z}) \in Int
  <2>1. \E v \in {x, y, z} : \A u \in {x, y, z} : v >= u
    <3>1. CASE x >= y /\ x >= z
      BY <1>6, <3>1
    <3>2. CASE y >= x /\ y >= z
      BY <1>6, <3>2
    <3>3. CASE z >= x /\ z >= y
      BY <1>6, <3>3
    <3> QED
      BY <1>6, <3>1, <3>2, <3>3
  <2>2. Max({x, y, z}) \in {x, y, z}
    BY <2>1 DEF Max
  <2> QED
    BY <1>6, <2>2
<1> QED
  BY <1>3, <1>5, <1>8, <1>9, <1>10, <1>11 DEF m

\* The average true range stays, and is a fraction where it is defined.
LEMMA AtrSame ==
    ASSUME NEW w \in Seq(Priced), NEW period \in Nat \ {0}
    PROVE  /\ Atr(Mirror(w), period) = Atr(w, period)
           /\ Atr(w, period) # <<>> => Atr(w, period)[1] \in Fraction
<1> DEFINE size == Len(w) - 1
           ranges == [n \in 1..size |-> TrueRange(w[n].close, w[n + 1])]
           others == [n \in 1..size |-> TrueRange(Mirror(w)[n].close, Mirror(w)[n + 1])]
<1>1. /\ Len(w) \in Nat /\ DOMAIN w = 1..Len(w) /\ Len(Mirror(w)) = Len(w)
      /\ \A n \in 1..Len(w) : w[n] \in Priced /\ Mirror(w)[n] = MirrorOf(w[n])
  BY MirrorWindow, LenProperties
<1>2. ASSUME NEW n \in 1..size
      PROVE  /\ TrueRange(Mirror(w)[n].close, Mirror(w)[n + 1])
                   = TrueRange(w[n].close, w[n + 1])
             /\ TrueRange(w[n].close, w[n + 1]) \in Int
  <2>1. n \in 1..Len(w) /\ n + 1 \in 1..Len(w)
    BY <1>1
  <2>2. w[n] \in Priced /\ Mirror(w)[n] = MirrorOf(w[n])
    BY <1>1, <2>1
  <2>3. w[n + 1] \in Priced /\ Mirror(w)[n + 1] = MirrorOf(w[n + 1])
    BY <1>1, <2>1
  <2>4. w[n].close \in Int /\ Mirror(w)[n].close = Turned(w[n].close)
    BY <2>2, MirrorFields DEF Priced
  <2> QED
    BY <2>3, <2>4, TurnedRanges
<1>3. others = ranges
  BY <1>2
<1>4. Atr(Mirror(w), period) = Smoothed(others, period, Frac(1, period))
  BY <1>1 DEF Atr
<1>5. Atr(w, period) = Smoothed(ranges, period, Frac(1, period))
  BY DEF Atr
<1>6. ASSUME Atr(w, period) # <<>> PROVE Atr(w, period)[1] \in Fraction
  <2>1. ~(Len(ranges) < period)
    <3> HIDE DEF ranges
    <3> QED
      BY <1>5, <1>6 DEF Smoothed
  <2>2. ranges \in Seq(Int) /\ Len(ranges) \in Nat
    <3>1. CASE size \in Nat
      <4>1. \A n \in 1..size : ranges[n] \in Int
        BY <1>2
      <4>2. ranges \in [1..size -> Int]
        BY <1>2
      <4> HIDE DEF ranges, size
      <4>3. ranges \in Seq(Int)
        BY <3>1, <4>2
      <4> QED
        BY <4>3, LenProperties
    <3>2. CASE size \notin Nat
      <4>1. 1..size = {} /\ 1..0 = {}
        BY <1>1, <3>2
      <4>2. ranges \in [1..0 -> Int]
        BY <4>1
      <4> HIDE DEF ranges, size
      <4>3. ranges \in Seq(Int)
        BY <4>2
      <4> QED
        BY <4>3, LenProperties
    <3> QED
      BY <3>1, <3>2
  <2> HIDE DEF ranges
  <2>3. period <= Len(ranges)
    BY <2>1, <2>2
  <2>4. Frac(1, period) \in Fraction
    BY FractionTypes
  <2>5. PICK g : Averages(g, ranges, period, Frac(1, period))
    BY <2>2, <2>3, <2>4, SmoothedIs
  <2> DEFINE D == 1..Len(Later(ranges, period))
  <2>6. g \in [SUBSET D -> Fraction] /\ Smoothed(ranges, period, Frac(1, period)) = <<g[D]>>
    BY <2>5 DEF Averages
  <2>7. g[D] \in Fraction
    BY <2>6
  <2> HIDE DEF D
  <2> QED
    BY <1>5, <2>6, <2>7
<1> HIDE DEF ranges, others
<1> QED
  BY <1>3, <1>4, <1>5, <1>6

\* The last candles are a part of the window, and there when the window is.
LEMMA LastOfMirror ==
    ASSUME NEW w \in Seq(Priced), NEW n \in Nat \ {0}
    PROVE  /\ LastOf(n, Mirror(w)) = Mirror(LastOf(n, w)) /\ LastOf(n, w) \in Seq(Priced)
           /\ Len(LastOf(n, w)) = IF n <= Len(w) THEN n ELSE Len(w)
<1> DEFINE from == Max({1, Len(w) - n + 1})
<1>1. Len(w) \in Nat /\ Len(Mirror(w)) = Len(w)
  BY MirrorWindow, LenProperties
<1>2. /\ from \in {1, Len(w) - n + 1} /\ from >= 1 /\ from >= Len(w) - n + 1
  <2>1. 1 \in Int /\ Len(w) - n + 1 \in Int
    BY <1>1
  <2> QED
    BY <2>1, OfTwo
<1>3. from \in Int
  BY <1>1, <1>2
<1>4. LastOf(n, w) = SubSeq(w, from, Len(w)) /\ LastOf(n, Mirror(w)) = SubSeq(Mirror(w), from, Len(w))
  BY <1>1 DEF LastOf
<1> HIDE DEF from
<1>5. SubSeq(Mirror(w), from, Len(w)) = Mirror(SubSeq(w, from, Len(w)))
  BY <1>1, <1>2, <1>3, MirrorPart
<1>6. SubSeq(w, from, Len(w)) \in Seq(Priced) /\ Len(SubSeq(w, from, Len(w))) = Len(w) - from + 1
  <2>1. from \in 1..(Len(w) + 1)
    BY <1>1, <1>2, <1>3
  <2> QED
    BY <1>1, <2>1, SubSeqProperties
<1> QED
  BY <1>1, <1>2, <1>3, <1>4, <1>5, <1>6

\* The regime stays.
LEMMA RegimeSame ==
    ASSUME NEW w \in Seq(Priced)
    PROVE  GetRegime(Mirror(w)) = GetRegime(w)
<1> DEFINE m == Mirror(w)
<1>1. m \in Seq(Priced) /\ Len(m) = Len(w) /\ Len(w) \in Nat
  BY MirrorWindow, LenProperties
<1>2. AtrPeriod \in Nat \ {0} /\ BodyLookback \in Nat \ {0}
  BY SignalsAssumption
<1>3. RegimeReady(m) <=> RegimeReady(w)
  BY <1>1 DEF RegimeReady
<1>4. Atr(m, AtrPeriod) = Atr(w, AtrPeriod)
  BY <1>2, AtrSame
<1>5. AvgBodyRatio(m) = AvgBodyRatio(w)
  <2> DEFINE last == LastOf(BodyLookback, w)
  <2>1. LastOf(BodyLookback, m) = Mirror(last) /\ last \in Seq(Priced)
    BY <1>2, LastOfMirror
  <2> HIDE DEF last, m
  <2>2. DOMAIN last = 1..Len(last)
    BY <2>1
  <2>3. DOMAIN Mirror(last) = DOMAIN last
    BY DEF Mirror
  <2>4. ASSUME NEW n \in DOMAIN last
        PROVE  BodyRatio(Mirror(last)[n]) = BodyRatio(last[n])
    <3>1. Mirror(last)[n] = MirrorOf(last[n]) /\ last[n] \in Priced
      BY <2>1, <2>2, MirrorWindow
    <3>2. 0 \in Int
      OBVIOUS
    <3> QED
      BY <3>1, <3>2, TurnedRanges
  <2>5. [n \in DOMAIN Mirror(last) |-> BodyRatio(Mirror(last)[n])]
           = [n \in DOMAIN last |-> BodyRatio(last[n])]
    BY <2>3, <2>4
  <2> QED
    BY <2>1, <2>5 DEF AvgBodyRatio, last
<1>6. ASSUME RegimeReady(w) PROVE RollingAtrs(m) = RollingAtrs(w)
  <2>1. Ends(m) = Ends(w)
    BY <1>1 DEF Ends
  <2>2. ASSUME NEW n \in DOMAIN Ends(w)
        PROVE  AtrUpTo(m, Ends(m)[n]) = AtrUpTo(w, Ends(w)[n])
    <3> DEFINE end == Ends(w)[n]
    <3>1. end \in (AtrPeriod + 1)..Len(w)
      BY <1>6, EndsInWindow
    <3> HIDE DEF end
    <3>2. end \in Int /\ end <= Len(w) /\ 1 <= end
      BY <1>1, <1>2, <3>1
    <3>3. SubSeq(m, 1, end) = Mirror(SubSeq(w, 1, end))
      BY <3>2, MirrorPart
    <3>4. SubSeq(w, 1, end) \in Seq(Priced)
      BY <1>1, <3>2, SubSeqProperties
    <3>5. Atr(SubSeq(m, 1, end), AtrPeriod) = Atr(SubSeq(w, 1, end), AtrPeriod)
      BY <1>2, <3>3, <3>4, AtrSame
    <3> QED
      BY <2>1, <3>5 DEF AtrUpTo, end
  <2> HIDE DEF m
  <2>3. [n \in DOMAIN Ends(m) |-> AtrUpTo(m, Ends(m)[n])]
           = [n \in DOMAIN Ends(w) |-> AtrUpTo(w, Ends(w)[n])]
    BY <2>1, <2>2
  <2> QED
    BY <2>3 DEF RollingAtrs
<1> HIDE DEF m
<1>7. CASE ~RegimeReady(w)
  <2>1. GetRegime(w) = "DEAD"
    BY <1>7, Zenon DEF GetRegime
  <2>2. GetRegime(m) = "DEAD"
    BY <1>3, <1>7, Zenon DEF GetRegime
  <2> QED
    BY <2>1, <2>2 DEF m
<1>8. CASE RegimeReady(w)
  <2> DEFINE Decided(now, rolling, body) ==
               IF <<>> \in {now, body, rolling} \/ Mean(rolling).num = 0
               THEN "DEAD"
               ELSE Regime(Frac(now[1].num * Mean(rolling).den,
                                now[1].den * Mean(rolling).num), body[1])
  <2>1. GetRegime(w) = Decided(Atr(w, AtrPeriod), RollingAtrs(w), AvgBodyRatio(w))
    BY <1>8, Zenon DEF GetRegime
  <2>2. GetRegime(m) = Decided(Atr(m, AtrPeriod), RollingAtrs(m), AvgBodyRatio(m))
    BY <1>3, <1>8, Zenon DEF GetRegime
  <2> HIDE DEF Decided
  <2> QED
    BY <1>4, <1>5, <1>6, <1>8, <2>1, <2>2 DEF m
<1> QED
  BY <1>7, <1>8

\* ---- the bias upside down ---------------------------------------------------------

\* A finite set of prices has a least one.
LEMMA LeastPrice ==
    ASSUME NEW S \in SUBSET Int, IsFiniteSet(S), S # {}
    PROVE  Min(S) \in S /\ \A y \in S : Min(S) <= y
<1> DEFINE Has(T) == \E x \in T : \A y \in T : x <= y
           Wrong == {T \in SUBSET S : T # {} /\ ~Has(T)}
<1>1. ASSUME NEW T \in Wrong, \A x \in T : T \ {x} \notin Wrong PROVE FALSE
  <2>1. T \in SUBSET S /\ T # {} /\ ~Has(T)
    OBVIOUS
  <2>2. PICK x \in T : TRUE
    BY <2>1
  <2>3. T \ {x} \in SUBSET S /\ T \ {x} \notin Wrong /\ x \in Int
    BY <1>1, <2>1
  <2>4. CASE T \ {x} = {}
    <3>1. \A y \in T : x <= y
      BY <2>3, <2>4
    <3> QED
      BY <2>1, <3>1
  <2>5. CASE T \ {x} # {}
    <3>1. PICK v \in T \ {x} : \A y \in T \ {x} : v <= y
      BY <2>3, <2>5
    <3>2. v \in Int /\ \A y \in T : y \in Int
      BY <2>1
    <3>3. CASE v <= x
      <4>1. \A y \in T : v <= y
        BY <3>1, <3>3
      <4> QED
        BY <2>1, <4>1
    <3>4. CASE ~(v <= x)
      <4>1. \A y \in T : x <= y
        BY <2>3, <3>1, <3>2, <3>4
      <4> QED
        BY <2>1, <4>1
    <3> QED
      BY <3>3, <3>4
  <2> QED
    BY <2>4, <2>5
<1>2. Wrong = {}
  <2>1. Wrong \in SUBSET SUBSET S
    OBVIOUS
  <2> HIDE DEF Wrong
  <2> QED
    BY <1>1, <2>1, SmallestSet
<1>3. \E x \in S : \A y \in S : x <= y
  BY <1>2
<1> QED
  BY <1>3 DEF Min

\* The greatest high upside down is the least low.
LEMMA ExtremesTurned ==
    ASSUME NEW w \in Seq(Priced), w # <<>>
    PROVE  /\ Min(Lows(w)) \in Int
           /\ Max(Highs(Mirror(w))) = Turned(Min(Lows(w)))
<1>1. /\ Len(w) \in Nat \ {0} /\ DOMAIN w = 1..Len(w)
      /\ DOMAIN Mirror(w) = 1..Len(w)
      /\ \A n \in 1..Len(w) : w[n] \in Priced /\ Mirror(w)[n] = MirrorOf(w[n])
  <2>1. Len(w) \in Nat \ {0} /\ DOMAIN w = 1..Len(w)
    OBVIOUS
  <2> QED
    BY <2>1, MirrorWindow DEF Mirror
<1>2. Lows(w) = {w[n].low : n \in 1..Len(w)}
  BY <1>1 DEF Lows
<1>3. Highs(Mirror(w)) = {Mirror(w)[n].high : n \in 1..Len(w)}
  BY <1>1 DEF Highs
<1>4. ASSUME NEW n \in 1..Len(w)
      PROVE  w[n].low \in Int /\ Mirror(w)[n].high = Turned(w[n].low)
  <2>1. w[n] \in Priced /\ Mirror(w)[n] = MirrorOf(w[n])
    BY <1>1
  <2> QED
    BY <2>1, MirrorFields DEF Priced
<1>5. Lows(w) \in SUBSET Int /\ Lows(w) # {}
  BY <1>1, <1>2, <1>4
<1>6. IsFiniteSet(Lows(w))
  <2>1. IsFiniteSet(1..Len(w))
    BY <1>1, FS_Interval
  <2> DEFINE at == [n \in 1..Len(w) |-> w[n].low]
  <2>2. Lows(w) = {at[n] : n \in 1..Len(w)}
    BY <1>2
  <2>3. at \in Surjection(1..Len(w), Lows(w))
    BY <2>2 DEF Surjection
  <2> HIDE DEF at
  <2> QED
    BY <2>1, <2>3, FS_Surjection
<1> DEFINE least == Min(Lows(w))
<1>7. least \in Lows(w) /\ \A y \in Lows(w) : least <= y
  BY <1>5, <1>6, LeastPrice
<1> HIDE DEF least
<1>8. least \in Int /\ Turned(least) \in Int
  BY <1>5, <1>7, TurnedWhole
<1>9. \A y \in Highs(Mirror(w)) : y \in Int /\ Turned(least) >= y
  <2> SUFFICES ASSUME NEW n \in 1..Len(w)
               PROVE  Mirror(w)[n].high \in Int /\ Turned(least) >= Mirror(w)[n].high
    BY <1>3
  <2>1. w[n].low \in Int /\ least <= w[n].low
    BY <1>2, <1>4, <1>7
  <2>2. Turned(w[n].low) <= Turned(least) /\ Turned(w[n].low) \in Int
    BY <1>8, <2>1, TurnedDistance, TurnedWhole
  <2> QED
    BY <1>4, <1>8, <2>2
<1>10. Turned(least) \in Highs(Mirror(w))
  <2>1. PICK n \in 1..Len(w) : least = w[n].low
    BY <1>2, <1>7
  <2> QED
    BY <1>3, <1>4, <2>1
<1> DEFINE greatest == Max(Highs(Mirror(w)))
<1>11. greatest \in Highs(Mirror(w)) /\ \A y \in Highs(Mirror(w)) : greatest >= y
  <2>1. \E x \in Highs(Mirror(w)) : \A y \in Highs(Mirror(w)) : x >= y
    BY <1>9, <1>10
  <2> QED
    BY <2>1 DEF Max
<1> HIDE DEF greatest
<1>12. greatest = Turned(least)
  <2>1. greatest \in Int /\ Turned(least) >= greatest /\ greatest >= Turned(least)
    BY <1>9, <1>10, <1>11
  <2> QED
    BY <1>8, <2>1
<1> QED
  BY <1>8, <1>12 DEF least, greatest

\* What is turned round twice is back.
LEMMA TurnedSymmetric ==
    ASSUME NEW e, NEW f, IsTurned(f, e)
    PROVE  IsTurned(e, f)
<1>1. /\ Axis \in Int /\ e.num \in Int /\ e.den \in Int /\ f.den = e.den
      /\ f.num = 2 * (Axis * e.den) - e.num /\ Axis * e.den \in Int
  BY AxisType DEF IsTurned, Fraction
<1>2. e.num = 2 * (Axis * f.den) - f.num
  <2> DEFINE p == Axis * e.den
  <2>1. p \in Int /\ f.num = 2 * p - e.num /\ Axis * f.den = p
    BY <1>1
  <2> HIDE DEF p
  <2> QED
    BY <1>1, <2>1
<1> QED
  BY <1>1, <1>2 DEF IsTurned

\* The last candle, the structure and the swing of a window upside down.
LEMMA LastTurned ==
    ASSUME NEW w \in Seq(Priced), w # <<>>
    PROVE  Last(w) \in Priced /\ Last(Mirror(w)) = MirrorOf(Last(w))
<1>1. Len(w) \in 1..Len(w)
  OBVIOUS
<1> QED
  BY <1>1, MirrorWindow DEF Last

\* The structure of a window, upside down.
LEMMA StructureTurned ==
    ASSUME NEW w \in Seq(Priced), Len(w) >= 2
    PROVE  /\ Structure(w) \in Seq(Priced) /\ Structure(w) # <<>>
           /\ Structure(Mirror(w)) = Mirror(Structure(w))
<1> DEFINE n == StructureLookback + 1
           last == LastOf(n, w)
<1>1. n \in Nat \ {0} /\ n >= 2 /\ Len(w) \in Nat
  <2>1. StructureLookback \in Nat \ {0}
    BY SignalsAssumption
  <2> QED
    BY <2>1
<1> HIDE DEF n
<1>2. /\ LastOf(n, Mirror(w)) = Mirror(last) /\ last \in Seq(Priced)
      /\ Len(last) = IF n <= Len(w) THEN n ELSE Len(w)
  BY <1>1, LastOfMirror
<1> HIDE DEF last
<1>3. Len(last) >= 2 /\ Len(last) \in Nat /\ Len(Mirror(last)) = Len(last)
  BY <1>1, <1>2, MirrorWindow
<1>4. /\ Structure(w) = SubSeq(last, 1, Len(last) - 1)
      /\ Structure(Mirror(w)) = SubSeq(Mirror(last), 1, Len(last) - 1)
  BY <1>2, <1>3 DEF Structure, Front, n, last
<1>5. SubSeq(Mirror(last), 1, Len(last) - 1) = Mirror(SubSeq(last, 1, Len(last) - 1))
  BY <1>2, <1>3, MirrorPart
<1>6. /\ SubSeq(last, 1, Len(last) - 1) \in Seq(Priced)
      /\ Len(SubSeq(last, 1, Len(last) - 1)) = Len(last) - 1
  <2>1. 1 \in 1..(Len(last) + 1) /\ Len(last) - 1 \in 0..Len(last)
    BY <1>3
  <2>2. Len(last) - 1 - 1 + 1 = Len(last) - 1
    BY <1>3
  <2> QED
    BY <1>2, <1>3, <2>1, <2>2, SubSeqProperties
<1>7. Structure(w) # <<>>
  <2>1. Len(Structure(w)) = Len(last) - 1 /\ Structure(w) \in Seq(Priced)
    BY <1>4, <1>6
  <2> QED
    BY <1>3, <2>1
<1> QED
  BY <1>4, <1>5, <1>6, <1>7

\* Up is down.
LEMMA UpIsDown ==
    ASSUME NEW w \in Seq(Priced), Len(w) >= 2,
           NEW e, NEW f, IsTurned(f, e), NEW g, NEW h, IsTurned(h, g)
    PROVE  Up(Mirror(w), f, h) <=> Down(w, e, g)
<1> DEFINE m == Mirror(w)
           c == Last(w)
           there == Structure(m)
           here == Structure(w)
<1>1. w # <<>>
  OBVIOUS
<1>2. c \in Priced /\ Last(m) = MirrorOf(c)
  BY <1>1, LastTurned
<1>3. here \in Seq(Priced) /\ here # <<>> /\ there = Mirror(here)
  BY StructureTurned
<1> HIDE DEF m, c, here, there
<1>4. c.close \in Int /\ c.low \in Int
  BY <1>2 DEF Priced
<1>5. Last(m).close = Turned(c.close) /\ Last(m).high = Turned(c.low)
  BY <1>2, MirrorFields
<1>6. IsTurned(Whole(Turned(c.close)), Whole(c.close))
  BY <1>4, TurnedWhole
<1>7. Less(f, Whole(Turned(c.close))) <=> Less(Whole(c.close), e)
  BY <1>6, TurnedLess
<1>8. Less(h, f) <=> Less(e, g)
  BY TurnedLess
<1>9. Max(Highs(there)) = Turned(Min(Lows(here))) /\ Min(Lows(here)) \in Int
  BY <1>3, ExtremesTurned
<1>10. Turned(c.low) >= Turned(Min(Lows(here))) <=> c.low <= Min(Lows(here))
  <2>1. Turned(Min(Lows(here))) <= Turned(c.low) <=> c.low <= Min(Lows(here))
    BY <1>4, <1>9, TurnedDistance
  <2>2. Turned(Min(Lows(here))) \in Int /\ Turned(c.low) \in Int
    BY <1>4, <1>9, TurnedWhole
  <2> QED
    BY <2>1, <2>2
<1>11. Up(m, f, h) <=> /\ Less(f, Whole(Turned(c.close))) /\ Less(h, f)
                       /\ Turned(c.low) >= Turned(Min(Lows(here)))
  BY <1>5, <1>9 DEF Up, there
<1>12. Down(w, e, g) <=> /\ Less(Whole(c.close), e) /\ Less(e, g)
                         /\ c.low <= Min(Lows(here))
  BY DEF Down, here, c
<1> QED
  BY <1>7, <1>8, <1>10, <1>11, <1>12 DEF m

\* The bias turns round.
LEMMA BiasTurned ==
    ASSUME NEW w \in Seq(Priced)
    PROVE  GetBias(Mirror(w)) = Opposite(GetBias(w))
<1> DEFINE m == Mirror(w)
<1>1. /\ m \in Seq(Priced) /\ Len(m) = Len(w) /\ Len(w) \in Nat /\ Mirror(m) = w
      /\ BiasEma \in Nat \ {0} /\ SlopeLookback \in Nat \ {0}
  <2>1. BiasEma \in Nat \ {0} /\ SlopeLookback \in Nat \ {0}
    BY SignalsAssumption
  <2> QED
    BY <2>1, MirrorWindow, LenProperties
<1>2. BiasReady(m) <=> BiasReady(w)
  <2> HIDE DEF m
  <2> QED
    BY <1>1 DEF BiasReady
<1>3. CASE ~BiasReady(w)
  <2>1. GetBias(w) = "FLAT"
    BY <1>3, Zenon DEF GetBias
  <2> HIDE DEF m
  <2>2. GetBias(m) = "FLAT"
    BY <1>2, <1>3, Zenon DEF GetBias
  <2> QED
    BY <2>1, <2>2 DEF Opposite, m
<1>4. CASE BiasReady(w)
  <2>1. Len(w) >= BiasEma + SlopeLookback + 1
    BY <1>4 DEF BiasReady
  <2> DEFINE part == SubSeq(w, 1, Len(w) - SlopeLookback)
  <2>2. part \in Seq(Priced) /\ SubSeq(m, 1, Len(w) - SlopeLookback) = Mirror(part)
    <3>1. Len(w) - SlopeLookback \in 1..Len(w)
      BY <1>1, <2>1
    <3>2. Len(w) - SlopeLookback \in Int /\ Len(w) - SlopeLookback <= Len(w) /\ 1 \in Int
      BY <1>1, <2>1
    <3>3. part \in Seq(Priced)
      BY <1>1, <3>1, SubSeqProperties
    <3> HIDE DEF part
    <3>4. SubSeq(Mirror(w), 1, Len(w) - SlopeLookback)
            = Mirror(SubSeq(w, 1, Len(w) - SlopeLookback))
      BY <3>2, MirrorPart
    <3> QED
      BY <3>3, <3>4 DEF part
  <2>3. EmaNow(w) # <<>> /\ EmaBefore(w) # <<>>
    BY <1>4, AveragesDefined
  <2>4. PICK e, f : EmaNow(w) = <<e>> /\ EmaNow(m) = <<f>> /\ IsTurned(f, e)
    <3>1. TurnedPair(Ema(m, BiasEma), Ema(w, BiasEma))
      BY <1>1, EmaTurned
    <3> QED
      BY <2>3, <3>1 DEF EmaNow, TurnedPair
  <2>5. PICK g, h : EmaBefore(w) = <<g>> /\ EmaBefore(m) = <<h>> /\ IsTurned(h, g)
    <3> HIDE DEF part, m
    <3>1. TurnedPair(Ema(Mirror(part), BiasEma), Ema(part, BiasEma))
      BY <1>1, <2>2, EmaTurned
    <3>2. EmaBefore(w) = Ema(part, BiasEma)
      BY DEF EmaBefore, part
    <3>3. EmaBefore(m) = Ema(Mirror(part), BiasEma)
      BY <1>1, <2>2 DEF EmaBefore
    <3> QED
      BY <2>3, <3>1, <3>2, <3>3 DEF TurnedPair
  <2>6. Len(w) >= 2 /\ Len(m) >= 2
    <3> HIDE DEF m
    <3> QED
      BY <1>1, <2>1
  <2>7. Up(m, f, h) <=> Down(w, e, g)
    BY <2>4, <2>5, <2>6, UpIsDown
  <2>8. Down(m, f, h) <=> Up(w, e, g)
    <3>1. IsTurned(e, f) /\ IsTurned(g, h)
      BY <2>4, <2>5, TurnedSymmetric
    <3> HIDE DEF m
    <3>2. Up(Mirror(m), e, g) <=> Down(m, f, h)
      BY <1>1, <2>6, <3>1, UpIsDown
    <3> QED
      BY <1>1, <3>2
  <2>9. ~(Up(w, e, g) /\ Down(w, e, g))
    <3> SUFFICES ASSUME Up(w, e, g), Down(w, e, g) PROVE FALSE
      OBVIOUS
    <3>1. Less(e, Whole(Last(w).close)) /\ Less(Whole(Last(w).close), e)
      BY DEF Up, Down
    <3>2. Last(w).close \in Int
      <4>1. w # <<>>
        BY <2>6
      <4>2. Last(w) \in Priced
        BY <4>1, LastTurned
      <4> QED
        BY <4>2 DEF Priced
    <3>3. e.num \in Int /\ e.den \in Int /\ Whole(Last(w).close).num \in Int
          /\ Whole(Last(w).close).den \in Int
      BY <2>4, <3>2 DEF IsTurned, Fraction, Whole, Frac
    <3> DEFINE x == e.num * Whole(Last(w).close).den
               y == Whole(Last(w).close).num * e.den
    <3>4. x \in Int /\ y \in Int /\ x < y /\ y < x
      BY <3>1, <3>3 DEF Less
    <3> HIDE DEF x, y
    <3> QED
      BY <3>4
  <2> DEFINE Turns(u, d) == IF u THEN "LONG_ONLY" ELSE IF d THEN "SHORT_ONLY" ELSE "FLAT"
  <2>10. <<>> # <<e>> /\ <<>> # <<f>> /\ <<>> # <<g>> /\ <<>> # <<h>>
    OBVIOUS
  <2> HIDE DEF m
  <2>11. GetBias(w) = Turns(Up(w, e, g), Down(w, e, g))
    <3>1. ~(~BiasReady(w) \/ <<>> \in {EmaNow(w), EmaBefore(w)})
      BY <1>4, <2>4, <2>5, <2>10
    <3>2. EmaNow(w)[1] = e /\ EmaBefore(w)[1] = g
      BY <2>4, <2>5
    <3> QED
      BY <3>1, <3>2 DEF GetBias
  <2>12. GetBias(m) = Turns(Up(m, f, h), Down(m, f, h))
    <3>1. ~(~BiasReady(m) \/ <<>> \in {EmaNow(m), EmaBefore(m)})
      BY <1>2, <1>4, <2>4, <2>5, <2>10
    <3>2. EmaNow(m)[1] = f /\ EmaBefore(m)[1] = h
      BY <2>4, <2>5
    <3> QED
      BY <3>1, <3>2 DEF GetBias
  <2>13. GetBias(m) = Opposite(GetBias(w))
    <3>1. CASE Up(w, e, g)
      BY <2>7, <2>8, <2>9, <2>11, <2>12, <3>1 DEF Opposite
    <3>2. CASE ~Up(w, e, g) /\ Down(w, e, g)
      BY <2>7, <2>8, <2>11, <2>12, <3>2 DEF Opposite
    <3>3. CASE ~Up(w, e, g) /\ ~Down(w, e, g)
      BY <2>7, <2>8, <2>11, <2>12, <3>3 DEF Opposite
    <3> QED
      BY <3>1, <3>2, <3>3
  <2> QED
    BY <2>13 DEF m
<1> QED
  BY <1>3, <1>4

\* ---- the setups upside down -------------------------------------------------------

\* A quotient and its rest are the only ones.
LEMMA QuotientIs ==
    ASSUME NEW a \in Nat \ {0}, NEW q \in Int, NEW r \in Int, 0 <= r, r < a,
           NEW x \in Int, x = q * a + r
    PROVE  x \div a = q /\ x % a = r
<1> DEFINE y == x \div a
           s == x % a
<1>1. y \in Int /\ s \in Int /\ 0 <= s /\ s < a /\ x = a * y + s
  OBVIOUS
<1> HIDE DEF y, s
<1> DEFINE d == y - q
<1>2. d \in Int /\ a * y = a * q + a * d /\ q * a = a * q
  BY <1>1
<1> HIDE DEF d
<1>3. a * d = r - s
  <2> DEFINE u == a * y
             v == a * q
             t == a * d
  <2>1. u \in Int /\ v \in Int /\ t \in Int /\ u = v + t /\ x = u + s /\ x = v + r
    BY <1>1, <1>2
  <2> HIDE DEF u, v, t
  <2>2. t = r - s
    BY <1>1, <2>1
  <2> QED
    BY <2>2 DEF t
<1>4. ~(d >= 1)
  <2> SUFFICES ASSUME d >= 1 PROVE FALSE
    OBVIOUS
  <2>1. 1 * a <= d * a
    BY <1>2, TimesMonotone
  <2>2. d * a = a * d /\ 1 * a = a
    BY <1>2
  <2> QED
    BY <1>1, <1>3, <2>1, <2>2
<1>5. ~(d <= -1)
  <2> SUFFICES ASSUME d <= -1 PROVE FALSE
    OBVIOUS
  <2>1. d * a <= (-1) * a
    BY <1>2, TimesMonotone
  <2>2. d * a = a * d /\ (-1) * a = -a
    BY <1>2
  <2> QED
    BY <1>1, <1>3, <2>1, <2>2
<1>6. d = 0
  BY <1>2, <1>4, <1>5
<1>7. y = q /\ s = r
  <2>1. a * d = 0
    BY <1>6
  <2>2. y = q
    BY <1>1, <1>6 DEF d
  <2> QED
    BY <1>1, <1>3, <2>1, <2>2
<1> QED
  BY <1>7 DEF y, s

\* And there are such.
LEMMA QuotientAndRest ==
    ASSUME NEW a \in Nat \ {0}, NEW x \in Int
    PROVE  /\ x \div a \in Int /\ x % a \in Int /\ 0 <= x % a /\ x % a < a
           /\ x = (x \div a) * a + (x % a)
OBVIOUS

\* round, in half steps: the step below or the one above, even from the middle.
Rounded(below, rest, stride) ==
    (IF rest < stride \/ (rest = stride /\ below % 2 = 0) THEN below ELSE below + 1) * stride

\* The nearest level upside down is the level upside down.
LEMMA LevelTurned ==
    ASSUME NEW c \in Priced
    PROVE  NearestLevel(c) \in Int /\ NearestLevel(MirrorOf(c)) = Turned(NearestLevel(c))
<1> DEFINE stride == RoundStep
           q == FirstPrice \div stride
           twice == c.high + c.low
           other == MirrorOf(c).high + MirrorOf(c).low
           below == twice \div (2 * stride)
           rest == twice % (2 * stride)
<1>1. stride \in Nat \ {0} /\ Axis \in Int
  BY AxisType, SignalsAssumption
<1>2. q \in Int /\ Axis = q * stride
  BY AxisType DEF Axis
<1>3. twice \in Int /\ other = 4 * Axis - twice
  <2>1. c.high \in Int /\ c.low \in Int
    BY DEF Priced
  <2>2. other = Turned(c.low) + Turned(c.high)
    BY MirrorFields
  <2> QED
    BY <1>1, <2>1, <2>2 DEF Turned
<1> HIDE DEF q, twice, other
<1>4. /\ below \in Int /\ rest \in Int /\ 0 <= rest /\ rest < 2 * stride
      /\ twice = below * (2 * stride) + rest
  <2> DEFINE size == 2 * stride
  <2>1. size \in Nat \ {0}
    BY <1>1
  <2> HIDE DEF size
  <2>2. /\ twice \div size \in Int /\ twice % size \in Int /\ 0 <= twice % size
        /\ twice % size < size /\ twice = (twice \div size) * size + (twice % size)
    BY <1>3, <2>1, QuotientAndRest
  <2> QED
    BY <2>2 DEF size
<1>5. NearestLevel(c) = Rounded(below, rest, stride)
  BY DEF NearestLevel, Rounded, twice
<1>6. NearestLevel(MirrorOf(c)) = Rounded(other \div (2 * stride), other % (2 * stride), stride)
  BY DEF NearestLevel, Rounded, other
<1> HIDE DEF below, rest, stride
<1>7. Turned(NearestLevel(c)) = 2 * (q * stride) - NearestLevel(c)
  BY <1>2 DEF Turned
<1>8. other = (2 * q - below) * (2 * stride) - rest
  <2>1. (2 * q - below) * (2 * stride) = 4 * (q * stride) - below * (2 * stride)
    BY <1>1, <1>2, <1>4
  <2> DEFINE u == q * stride
             v == below * (2 * stride)
  <2>2. u \in Int /\ v \in Int /\ twice = v + rest /\ other = 4 * u - twice
    BY <1>1, <1>2, <1>3, <1>4
  <2>3. (2 * q - below) * (2 * stride) = 4 * u - v
    BY <2>1
  <2> HIDE DEF u, v
  <2> QED
    BY <1>4, <2>2, <2>3
<1>9. 2 * stride \in Nat \ {0} /\ other \in Int /\ 2 * q - below \in Int
  BY <1>1, <1>2, <1>3, <1>4
<1>10. CASE rest = 0
  <2>1. other = (2 * q - below) * (2 * stride) + 0
    <3> DEFINE u == (2 * q - below) * (2 * stride)
    <3>1. u \in Int /\ other = u - 0
      BY <1>8, <1>9, <1>10
    <3> HIDE DEF u
    <3>2. other = u + 0
      BY <3>1
    <3> QED
      BY <3>2 DEF u
  <2>2. other \div (2 * stride) = 2 * q - below /\ other % (2 * stride) = 0
    <3> DEFINE size == 2 * stride
               p == 2 * q - below
    <3>1. 0 \in Int /\ 0 <= 0 /\ 0 < size
      BY <1>1
    <3>2. size \in Nat \ {0} /\ p \in Int /\ other = p * size + 0
      BY <1>9, <2>1
    <3> HIDE DEF size, p
    <3>3. other \div size = p /\ other % size = 0
      BY <1>9, <3>1, <3>2, QuotientIs
    <3> QED
      BY <3>3 DEF size, p
  <2>3. NearestLevel(MirrorOf(c)) = (2 * q - below) * stride
    BY <1>1, <1>6, <2>2 DEF Rounded
  <2>4. NearestLevel(c) = below * stride
    BY <1>1, <1>5, <1>10 DEF Rounded
  <2>5. (2 * q - below) * stride = 2 * (q * stride) - below * stride
    BY <1>1, <1>2, <1>4
  <2> QED
    BY <1>1, <1>4, <1>7, <2>3, <2>4, <2>5
<1>11. CASE rest # 0
  <2> DEFINE under == 2 * q - below - 1
             left == 2 * stride - rest
  <2>1. under \in Int /\ left \in Int /\ 0 <= left /\ left < 2 * stride
    BY <1>1, <1>2, <1>4, <1>11
  <2>2. other = under * (2 * stride) + left
    <3>1. (2 * q - below - 1) * (2 * stride) = (2 * q - below) * (2 * stride) - 2 * stride
      BY <1>1, <1>2, <1>4
    <3> DEFINE u == (2 * q - below) * (2 * stride)
               v == under * (2 * stride)
               t == 2 * stride
    <3>2. u \in Int /\ v \in Int /\ t \in Int /\ v = u - t /\ other = u - rest /\ left = t - rest
      BY <1>1, <1>8, <1>9, <2>1, <3>1
    <3> HIDE DEF u, v, t, under, left
    <3>3. other = v + left
      BY <1>4, <3>2
    <3> QED
      BY <3>3 DEF v
  <2>3. other \div (2 * stride) = under /\ other % (2 * stride) = left
    <3> DEFINE size == 2 * stride
    <3>1. size \in Nat \ {0} /\ other = under * size + left /\ left < size
      BY <1>9, <2>1, <2>2
    <3> HIDE DEF under, left, size
    <3>2. other \div size = under /\ other % size = left
      BY <1>9, <2>1, <3>1, QuotientIs
    <3> QED
      BY <3>2 DEF size
  <2>4. NearestLevel(MirrorOf(c)) = Rounded(under, left, stride)
    BY <1>6, <2>3
  <2>5. (under + 1) * stride = 2 * (q * stride) - below * stride
    <3>1. (2 * q - below - 1 + 1) * stride = 2 * (q * stride) - below * stride
      BY <1>1, <1>2, <1>4
    <3> QED
      BY <3>1
  <2>6. under * stride = 2 * (q * stride) - (below + 1) * stride
    <3>1. (2 * q - below - 1) * stride = 2 * (q * stride) - (below + 1) * stride
      BY <1>1, <1>2, <1>4
    <3> QED
      BY <3>1
  <2>7. under % 2 = 0 <=> below % 2 # 0
    BY <1>2, <1>4
  <2>8. left < stride <=> rest > stride
    BY <1>1, <1>4
  <2>9. left = stride <=> rest = stride
    BY <1>1, <1>4
  <2> DEFINE a == below * stride
             b == (below + 1) * stride
             u == q * stride
  <2>10. a \in Int /\ b \in Int /\ u \in Int
    BY <1>1, <1>2, <1>4
  <2> HIDE DEF under, left
  <2>11. CASE rest < stride \/ (rest = stride /\ below % 2 = 0)
    <3>1. NearestLevel(c) = a
      BY <1>5, <2>11 DEF Rounded
    <3>2. ~(left < stride \/ (left = stride /\ under % 2 = 0))
      BY <1>1, <1>4, <2>7, <2>8, <2>9, <2>11
    <3>3. NearestLevel(MirrorOf(c)) = (under + 1) * stride
      BY <2>4, <3>2 DEF Rounded
    <3>4. NearestLevel(MirrorOf(c)) = 2 * u - a
      BY <2>5, <3>3
    <3> HIDE DEF a, u
    <3> QED
      BY <1>7, <2>10, <3>1, <3>4 DEF u
  <2>12. CASE ~(rest < stride \/ (rest = stride /\ below % 2 = 0))
    <3>1. NearestLevel(c) = b
      BY <1>5, <2>12 DEF Rounded
    <3>2. left < stride \/ (left = stride /\ under % 2 = 0)
      BY <1>1, <1>4, <2>7, <2>8, <2>9, <2>12
    <3>3. NearestLevel(MirrorOf(c)) = under * stride
      BY <2>4, <3>2 DEF Rounded
    <3>4. NearestLevel(MirrorOf(c)) = 2 * u - b
      BY <2>6, <3>3
    <3> HIDE DEF b, u
    <3> QED
      BY <1>7, <2>10, <3>1, <3>4 DEF u
  <2> QED
    BY <2>11, <2>12
<1> QED
  BY <1>10, <1>11

\* What is left between a price and a fraction.
LEMMA MinusWhole ==
    ASSUME NEW e \in Fraction, NEW x \in Int
    PROVE  /\ Minus(Whole(x), e).num = x * e.den - e.num /\ Minus(Whole(x), e).den = e.den
           /\ Minus(e, Whole(x)).num = e.num - x * e.den
<1> DEFINE n == e.den
<1>1. n \in Nat \ {0} /\ e.num \in Int /\ 1 \in Nat \ {0}
  BY DEF Fraction
<1>2. \A a, b : /\ a.den = 1 /\ b.den = n => CommonDen(a, b) = n
                /\ a.den = n /\ b.den = 1 => CommonDen(a, b) = n
  <2>1. (1 % n = 0 => n = 1) /\ n % 1 = 0
    BY <1>1
  <2> HIDE DEF n
  <2> QED
    BY <2>1 DEF CommonDen
<1> HIDE DEF n
<1>3. n \div 1 = n /\ n \div n = 1
  <2>1. n * 1 = n /\ 1 * n = n
    BY <1>1
  <2>2. (n * 1) \div 1 = n /\ (1 * n) \div n = 1
    BY <1>1, DividesExactly
  <2> QED
    BY <2>1, <2>2
<1> DEFINE w == Whole(x)
           f == Frac(-e.num, n)
           v == Frac(-x, 1)
<1>4. /\ w.num = x /\ w.den = 1 /\ f.num = -e.num /\ f.den = n /\ v.num = -x /\ v.den = 1
      /\ e.den = n
  BY DEF Whole, Frac, n
<1>5. Minus(w, e) = Plus(w, f) /\ Minus(e, w) = Plus(e, v)
  BY <1>4 DEF Minus
<1> HIDE DEF w, f, v
<1>6. Plus(w, f) = Frac(x * n + (-e.num) * 1, n)
  BY <1>2, <1>3, <1>4 DEF Plus
<1>7. Plus(e, v) = Frac(e.num * 1 + (-x) * n, n)
  BY <1>2, <1>3, <1>4 DEF Plus
<1>8. /\ x * n + (-e.num) * 1 = x * n - e.num
      /\ e.num * 1 + (-x) * n = e.num - x * n
  BY <1>1
<1> QED
  BY <1>4, <1>5, <1>6, <1>7, <1>8 DEF Frac, w

\* A signal the other way.
IsOpposite(m, s) ==
    /\ s.direction \in {1, -1} /\ s.entry \in Int
    /\ m.direction = -s.direction /\ m.entry = Turned(s.entry)
    /\ IsTurned(m.stop, s.stop) /\ m.setup = s.setup

\* No signal on both sides, or one the other way.
Matched(there, here) ==
    \/ here = {} /\ there = {}
    \/ \E s, m : here = {s} /\ there = {m} /\ IsOpposite(m, s)

\* Either side may come first.
LEMMA MatchedSymmetric ==
    ASSUME NEW here, NEW there, Matched(there, here)
    PROVE  Matched(here, there)
<1>1. CASE here = {} /\ there = {}
  BY <1>1 DEF Matched
<1>2. CASE \E s, m : here = {s} /\ there = {m} /\ IsOpposite(m, s)
  <2>1. PICK s, m : here = {s} /\ there = {m} /\ IsOpposite(m, s)
    BY <1>2
  <2>2. IsTurned(s.stop, m.stop)
    BY <2>1, TurnedSymmetric DEF IsOpposite
  <2>3. m.entry \in Int /\ s.entry = Turned(m.entry)
    BY <2>1, TurnedWhole DEF IsOpposite
  <2>4. m.direction \in {1, -1} /\ s.direction = -m.direction
    BY <2>1 DEF IsOpposite
  <2>5. IsOpposite(s, m)
    BY <2>1, <2>2, <2>3, <2>4 DEF IsOpposite
  <2> QED
    BY <2>1, <2>5 DEF Matched
<1> QED
  BY <1>1, <1>2 DEF Matched

\* The stop of one is on the losing side where that of the other is.
LEMMA StoppedTurned ==
    ASSUME NEW c \in Priced, NEW d \in {1, -1}, NEW e, NEW f, IsTurned(f, e), NEW setup
    PROVE  Matched(Stopped(-d, MirrorOf(c), f, setup), Stopped(d, c, e, setup))
<1> DEFINE m == MirrorOf(c)
           here == Stopped(d, c, e, setup)
           there == Stopped(-d, m, f, setup)
           s == SignalOf(d, c.close, e, setup)
           o == SignalOf(-d, Turned(c.close), f, setup)
           risk == Minus(Whole(c.close), e)
           other == Minus(Whole(Turned(c.close)), f)
<1>1. c.close \in Int /\ m.close = Turned(c.close) /\ Turned(c.close) \in Int
  <2>1. c.close \in Int
    BY DEF Priced
  <2> QED
    BY <2>1, MirrorFields, TurnedWhole
<1>2. /\ e \in Fraction /\ f \in Fraction /\ f.den = e.den
      /\ f.num = 2 * (Axis * e.den) - e.num
      /\ e.num \in Int /\ e.den \in Nat \ {0} /\ Axis \in Int /\ d \in Int
  BY AxisType DEF IsTurned, Fraction
<1>3. risk.num = c.close * e.den - e.num /\ risk.den = e.den
  BY <1>1, <1>2, MinusWhole
<1>4. other.num = Turned(c.close) * f.den - f.num /\ other.den = f.den
  BY <1>1, <1>2, MinusWhole
<1> DEFINE x == c.close * e.den
           p == Axis * e.den
<1>5. x \in Int /\ p \in Int /\ Turned(c.close) * f.den = 2 * p - x
  <2>1. (2 * Axis - c.close) * e.den = 2 * p - x
    BY <1>1, <1>2
  <2> QED
    BY <1>1, <1>2, <2>1 DEF Turned
<1>6. risk.num = x - e.num /\ other.num = (2 * p - x) - (2 * p - e.num)
  BY <1>2, <1>3, <1>4, <1>5
<1> HIDE DEF x, p, risk, other, m
<1>7. other.num = -risk.num /\ risk.num \in Int
  BY <1>2, <1>5, <1>6
<1> DEFINE Losing(n, r) == Less(Whole(0), Mul(Whole(n), r))
<1>8. Losing(d, risk) <=> 0 < d * risk.num
  <2>1. 0 * (1 * risk.den) = 0
    BY <1>2, <1>3
  <2>2. (d * risk.num) * 1 = d * risk.num
    BY <1>2, <1>7
  <2> QED
    BY <2>1, <2>2 DEF Less, Whole, Mul, Frac
<1>9. Losing(-d, other) <=> 0 < (-d) * other.num
  <2>1. 0 * (1 * other.den) = 0
    BY <1>2, <1>4
  <2>2. ((-d) * other.num) * 1 = (-d) * other.num
    BY <1>2, <1>7
  <2> QED
    BY <2>1, <2>2 DEF Less, Whole, Mul, Frac
<1>10. (-d) * other.num = d * risk.num
  BY <1>2, <1>7
<1> HIDE DEF Losing
<1>11. here = IF Losing(d, risk) THEN {s} ELSE {}
  BY DEF Stopped, Losing, risk
<1>12. there = IF Losing(-d, other) THEN {o} ELSE {}
  BY <1>1 DEF Stopped, Losing, other
<1>13. IsOpposite(o, s)
  <2>1. /\ s.direction = d /\ o.direction = -d /\ s.entry = c.close /\ s.stop = e
        /\ o.entry = Turned(c.close) /\ o.stop = f /\ s.setup = setup /\ o.setup = setup
    BY DEF SignalOf
  <2> HIDE DEF s, o
  <2> QED
    BY <1>1, <2>1 DEF IsOpposite
<1> HIDE DEF s, o, here, there
<1>14. Losing(-d, other) <=> Losing(d, risk)
  BY <1>8, <1>9, <1>10
<1>15. CASE Losing(d, risk)
  <2>1. here = {s} /\ there = {o}
    BY <1>11, <1>12, <1>14, <1>15
  <2>2. Matched(there, here)
    BY <1>13, <2>1 DEF Matched
  <2> QED
    BY <2>2 DEF here, there, m
<1>16. CASE ~Losing(d, risk)
  <2>1. here = {} /\ there = {}
    BY <1>11, <1>12, <1>14, <1>16
  <2>2. Matched(there, here)
    BY <2>1 DEF Matched
  <2> QED
    BY <2>2 DEF here, there, m
<1> QED
  BY <1>15, <1>16

\* A long pullback upside down is a short one, at a candle with a body.
LEMMA PullbackTurned ==
    ASSUME NEW w \in Seq(Priced), w # <<>>, NEW c \in Priced, c.close # c.open,
           NEW e, NEW f, IsTurned(f, e), NEW tol \in Fraction
    PROVE  Matched(ShortPullback(Mirror(w), MirrorOf(c), f, tol),
                   LongPullback(w, c, e, tol))
<1> DEFINE v == Mirror(w)
           m == MirrorOf(c)
           least == Min(Lows(Swing(w)))
<1>1. /\ c.open \in Int /\ c.close \in Int /\ c.high \in Int /\ c.low \in Int
      /\ m.open = Turned(c.open) /\ m.close = Turned(c.close)
      /\ m.high = Turned(c.low) /\ m.low = Turned(c.high)
  <2>1. c.open \in Int /\ c.close \in Int /\ c.high \in Int /\ c.low \in Int
    BY DEF Priced
  <2> QED
    BY <2>1, MirrorFields
<1>2. Extent(m) = Extent(c)
  <2>1. 0 \in Int
    OBVIOUS
  <2> QED
    BY <2>1, TurnedRanges
<1> HIDE DEF m, v
<1>3. least \in Int /\ Max(Highs(Swing(v))) = Turned(least)
  <2>1. SwingLookback \in Nat \ {0}
    BY SignalsAssumption
  <2>2. /\ Swing(v) = Mirror(Swing(w)) /\ Swing(w) \in Seq(Priced)
        /\ Len(Swing(w)) = IF SwingLookback <= Len(w) THEN SwingLookback ELSE Len(w)
    BY <2>1, LastOfMirror DEF Swing, v
  <2>3. Len(w) \in Nat \ {0}
    OBVIOUS
  <2>4. Swing(w) # <<>>
    <3>1. Len(Swing(w)) # 0
      BY <2>1, <2>2, <2>3
    <3> QED
      BY <3>1
  <2> QED
    BY <2>2, <2>4, ExtremesTurned
<1>4. AtMost(Minus(f, tol), Whole(m.high)) <=> AtMost(Whole(c.low), Plus(e, tol))
  <2>1. IsTurned(Minus(f, tol), Plus(e, tol))
    BY TurnedShift
  <2>2. IsTurned(Whole(m.high), Whole(c.low))
    BY <1>1, TurnedWhole
  <2> QED
    BY <2>1, <2>2, TurnedLess
<1>5. m.high - m.close = c.close - c.low
  BY <1>1, TurnedDistance
<1>6. Rejects(m.high - m.close, m) <=> Rejects(c.close - c.low, c)
  BY <1>2, <1>5 DEF Rejects
<1>7. m.close < m.open <=> c.close >= c.open
  <2>1. Turned(c.close) < Turned(c.open) <=> c.open < c.close
    BY <1>1, TurnedDistance
  <2> QED
    BY <1>1, <2>1
<1>8. Matched(Stopped(-1, m, Whole(Turned(least)), "A"), Stopped(1, c, Whole(least), "A"))
  <2>1. IsTurned(Whole(Turned(least)), Whole(least)) /\ 1 \in {1, -1}
    BY <1>3, TurnedWhole
  <2> QED
    BY <2>1, StoppedTurned DEF m
<1>9. CASE /\ AtMost(Whole(c.low), Plus(e, tol))
           /\ Rejects(c.close - c.low, c)
           /\ c.close >= c.open
  <2>1. LongPullback(w, c, e, tol) = Stopped(1, c, Whole(least), "A")
    BY <1>9 DEF LongPullback
  <2>2. ShortPullback(v, m, f, tol) = Stopped(-1, m, Whole(Turned(least)), "A")
    BY <1>3, <1>4, <1>6, <1>7, <1>9 DEF ShortPullback
  <2>3. Matched(ShortPullback(v, m, f, tol), LongPullback(w, c, e, tol))
    BY <1>8, <2>1, <2>2
  <2> QED
    BY <2>3 DEF v, m
<1>10. CASE ~(/\ AtMost(Whole(c.low), Plus(e, tol))
              /\ Rejects(c.close - c.low, c)
              /\ c.close >= c.open)
  <2>1. LongPullback(w, c, e, tol) = {}
    BY <1>10 DEF LongPullback
  <2>2. ShortPullback(v, m, f, tol) = {}
    BY <1>4, <1>6, <1>7, <1>10 DEF ShortPullback
  <2>3. Matched(ShortPullback(v, m, f, tol), LongPullback(w, c, e, tol))
    BY <2>1, <2>2 DEF Matched
  <2> QED
    BY <2>3 DEF v, m
<1> QED
  BY <1>9, <1>10

\* Broken from below upside down is broken from above.
LEMMA BrokeTurned ==
    ASSUME NEW c \in Priced, NEW level \in Int, NEW tol \in Fraction
    PROVE  BrokeUp(MirrorOf(c), Turned(level), tol) <=> BrokeDown(c, level, tol)
<1> DEFINE m == MirrorOf(c)
<1>1. /\ c.close \in Int /\ c.low \in Int
      /\ m.close = Turned(c.close) /\ m.high = Turned(c.low)
  <2>1. c.close \in Int /\ c.low \in Int
    BY DEF Priced
  <2> QED
    BY <2>1, MirrorFields
<1> HIDE DEF m
<1>2. IsTurned(Plus(Whole(Turned(level)), tol), Minus(Whole(level), tol))
  <2>1. IsTurned(Whole(Turned(level)), Whole(level))
    BY TurnedWhole
  <2> QED
    BY <2>1, TurnedShift
<1>3. IsTurned(Whole(m.high), Whole(c.low))
  BY <1>1, TurnedWhole
<1>4. AtMost(Plus(Whole(Turned(level)), tol), Whole(m.high))
        <=> AtMost(Whole(c.low), Minus(Whole(level), tol))
  BY <1>2, <1>3, TurnedLess
<1>5. m.close < Turned(level) <=> c.close > level
  <2>1. Turned(c.close) < Turned(level) <=> level < c.close
    BY <1>1, TurnedDistance
  <2> QED
    BY <1>1, <2>1
<1>6. BrokeUp(m, Turned(level), tol) <=> BrokeDown(c, level, tol)
  BY <1>4, <1>5 DEF BrokeUp, BrokeDown
<1> QED
  BY <1>6 DEF m

\* A rejected level, upside down.
LEMMA FadeTurned ==
    ASSUME NEW c \in Priced, NEW b \in Biases, NEW atr \in Fraction
    PROVE  Matched(Fade(MirrorOf(c), Opposite(b), atr), Fade(c, b, atr))
<1> DEFINE m == MirrorOf(c)
           level == NearestLevel(c)
           tol == Mul(LevelTol, atr)
           beyond == Mul(StopAtr, atr)
<1>1. m \in Priced /\ MirrorOf(m) = c
  BY MirrorOfCandle
<1>2. level \in Int /\ NearestLevel(m) = Turned(level)
  BY LevelTurned
<1>3. tol \in Fraction /\ beyond \in Fraction
  <2>1. LevelTol \in Fraction /\ StopAtr \in Fraction
    BY SignalsAssumption DEF Fraction
  <2> QED
    BY <2>1, FractionTypes
<1>4. /\ c.close \in Int /\ c.low \in Int /\ c.high \in Int
      /\ m.high = Turned(c.low) /\ m.low = Turned(c.high)
  <2>1. c.close \in Int /\ c.low \in Int /\ c.high \in Int
    BY DEF Priced
  <2> QED
    BY <2>1, MirrorFields
<1> HIDE DEF level, tol, beyond
<1>5. BrokeUp(m, Turned(level), tol) <=> BrokeDown(c, level, tol)
  BY <1>2, <1>3, BrokeTurned
<1> HIDE DEF m
<1>6. BrokeDown(m, Turned(level), tol) <=> BrokeUp(c, level, tol)
  <2>1. Turned(level) \in Int /\ Turned(Turned(level)) = level
    BY <1>2, TurnedWhole
  <2>2. BrokeUp(MirrorOf(m), Turned(Turned(level)), tol) <=> BrokeDown(m, Turned(level), tol)
    BY <1>1, <1>3, <2>1, BrokeTurned
  <2> QED
    BY <1>1, <2>1, <2>2
<1>7. ~(BrokeUp(c, level, tol) /\ BrokeDown(c, level, tol))
  BY <1>2, <1>4 DEF BrokeUp, BrokeDown
<1>8. Matched(Stopped(1, m, Minus(Whole(m.low), beyond), "B"),
              Stopped(-1, c, Plus(Whole(c.high), beyond), "B"))
  <2>1. IsTurned(Whole(m.low), Whole(c.high))
    BY <1>4, TurnedWhole
  <2>2. IsTurned(Minus(Whole(m.low), beyond), Plus(Whole(c.high), beyond))
    BY <1>3, <2>1, TurnedShift
  <2>3. PICK d \in {1, -1} : d + 1 = 0
    OBVIOUS
  <2>4. d = -1 /\ d \in Int
    BY <2>3
  <2>5. Matched(Stopped(-d, MirrorOf(c), Minus(Whole(m.low), beyond), "B"),
                Stopped(d, c, Plus(Whole(c.high), beyond), "B"))
    BY <2>2, StoppedTurned
  <2>6. -d = 1
    <3>1. d \in Int
      BY <2>4
    <3> QED
      BY <2>3, <3>1
  <2> QED
    BY <2>4, <2>5, <2>6 DEF m
<1>9. Matched(Stopped(-1, m, Plus(Whole(m.high), beyond), "B"),
              Stopped(1, c, Minus(Whole(c.low), beyond), "B"))
  <2>1. IsTurned(Whole(m.high), Whole(c.low))
    BY <1>4, TurnedWhole
  <2>2. IsTurned(Plus(Whole(m.high), beyond), Minus(Whole(c.low), beyond)) /\ 1 \in {1, -1}
    BY <1>3, <2>1, TurnedShift
  <2> QED
    BY <2>2, StoppedTurned DEF m
<1>10. /\ Opposite(b) # "LONG_ONLY" <=> b # "SHORT_ONLY"
       /\ Opposite(b) # "SHORT_ONLY" <=> b # "LONG_ONLY"
  BY DEF Opposite, Biases
<1> DEFINE up == BrokeUp(c, level, tol)
           down == BrokeDown(c, level, tol)
<1>11. Fade(c, b, atr) = IF up /\ b # "LONG_ONLY"
                         THEN Stopped(-1, c, Plus(Whole(c.high), beyond), "B")
                         ELSE IF down /\ b # "SHORT_ONLY"
                         THEN Stopped(1, c, Minus(Whole(c.low), beyond), "B")
                         ELSE {}
  BY Zenon DEF Fade, level, tol, beyond
<1>12. Fade(m, Opposite(b), atr) =
          IF BrokeUp(m, Turned(level), tol) /\ Opposite(b) # "LONG_ONLY"
          THEN Stopped(-1, m, Plus(Whole(m.high), beyond), "B")
          ELSE IF BrokeDown(m, Turned(level), tol) /\ Opposite(b) # "SHORT_ONLY"
          THEN Stopped(1, m, Minus(Whole(m.low), beyond), "B")
          ELSE {}
  <2>1. NearestLevel(m) = Turned(level)
    BY <1>2
  <2> QED
    BY <2>1 DEF Fade, tol, beyond
<1> HIDE DEF up, down
<1>13. Matched(Fade(m, Opposite(b), atr), Fade(c, b, atr))
  <2>1. CASE up /\ b # "LONG_ONLY"
    <3>1. Fade(c, b, atr) = Stopped(-1, c, Plus(Whole(c.high), beyond), "B")
      BY <1>11, <2>1
    <3>2. Fade(m, Opposite(b), atr) = Stopped(1, m, Minus(Whole(m.low), beyond), "B")
      BY <1>5, <1>6, <1>7, <1>10, <1>12, <2>1 DEF up
    <3> QED
      BY <1>8, <3>1, <3>2
  <2>2. CASE ~(up /\ b # "LONG_ONLY") /\ down /\ b # "SHORT_ONLY"
    <3>1. Fade(c, b, atr) = Stopped(1, c, Minus(Whole(c.low), beyond), "B")
      BY <1>11, <2>2
    <3>2. Fade(m, Opposite(b), atr) = Stopped(-1, m, Plus(Whole(m.high), beyond), "B")
      BY <1>5, <1>10, <1>12, <2>2 DEF down
    <3> QED
      BY <1>9, <3>1, <3>2
  <2>3. CASE ~(up /\ b # "LONG_ONLY") /\ ~(down /\ b # "SHORT_ONLY")
    <3>1. Fade(c, b, atr) = {}
      BY <1>11, <2>3
    <3>2. Fade(m, Opposite(b), atr) = {}
      BY <1>5, <1>6, <1>10, <1>12, <2>3 DEF up, down
    <3> QED
      BY <3>1, <3>2 DEF Matched
  <2> QED
    BY <2>1, <2>2, <2>3
<1> QED
  BY <1>13 DEF m

\* A pullback with the trend, upside down.
LEMMA LongIsShort ==
    ASSUME NEW w \in Seq(Priced), w # <<>>, Last(w).close # Last(w).open
    PROVE  Matched(Pullback(Mirror(w), "SHORT_ONLY"), Pullback(w, "LONG_ONLY"))
<1> DEFINE m == Mirror(w)
           here == Pullback(w, "LONG_ONLY")
           there == Pullback(m, "SHORT_ONLY")
<1>1. /\ SetupEma \in Nat \ {0} /\ SetupAtr \in Nat \ {0} /\ TouchAtr \in Fraction
  BY SignalsAssumption DEF Fraction
<1>2. /\ Last(w) \in Priced /\ Last(m) = MirrorOf(Last(w)) /\ Len(m) = Len(w)
  BY LastTurned, MirrorWindow
<1>3. TurnedPair(Ema(m, SetupEma), Ema(w, SetupEma))
  BY <1>1, EmaTurned
<1>4. /\ Atr(m, SetupAtr) = Atr(w, SetupAtr)
      /\ Atr(w, SetupAtr) # <<>> => Atr(w, SetupAtr)[1] \in Fraction
  BY <1>1, AtrSame
<1> HIDE DEF m
<1>5. PullbackReady(m) <=> PullbackReady(w)
  BY <1>2 DEF PullbackReady
<1>6. CASE ~PullbackReady(w) \/ <<>> \in {Ema(w, SetupEma), Atr(w, SetupAtr)}
  <2>1. here = {}
    BY <1>6, Zenon DEF Pullback
  <2>2. ~PullbackReady(m) \/ <<>> \in {Ema(m, SetupEma), Atr(m, SetupAtr)}
    <3>1. Ema(w, SetupEma) = <<>> => Ema(m, SetupEma) = <<>>
      <4>1. \A e : <<>> # <<e>>
        OBVIOUS
      <4> QED
        BY <1>3, <4>1, Zenon DEF TurnedPair
    <3> QED
      BY <1>4, <1>5, <1>6, <3>1, Zenon
  <2>3. there = {}
    BY <2>2, Zenon DEF Pullback
  <2> HIDE DEF here, there
  <2>4. Matched(there, here)
    BY <2>1, <2>3, Zenon DEF Matched
  <2> QED
    BY <2>4 DEF here, there, m
<1>7. CASE PullbackReady(w) /\ Ema(w, SetupEma) # <<>> /\ Atr(w, SetupAtr) # <<>>
  <2>1. PICK e, f : Ema(w, SetupEma) = <<e>> /\ Ema(m, SetupEma) = <<f>> /\ IsTurned(f, e)
    BY <1>3, <1>7, Zenon DEF TurnedPair
  <2> DEFINE tol == Mul(TouchAtr, Atr(w, SetupAtr)[1])
  <2>2. tol \in Fraction
    BY <1>1, <1>4, <1>7, FractionTypes
  <2>3. here = LongPullback(w, Last(w), e, tol)
    <3>1. Ema(w, SetupEma)[1] = e
      BY <2>1
    <3> QED
      BY <1>7, <3>1 DEF Pullback
  <2>4. there = ShortPullback(m, MirrorOf(Last(w)), f, tol)
    <3>1. Ema(m, SetupEma)[1] = f /\ Ema(m, SetupEma) # <<>>
      BY <2>1
    <3> QED
      BY <1>2, <1>4, <1>5, <1>7, <3>1 DEF Pullback
  <2> HIDE DEF tol
  <2>5. Matched(ShortPullback(Mirror(w), MirrorOf(Last(w)), f, tol),
                LongPullback(w, Last(w), e, tol))
    BY <1>2, <2>1, <2>2, PullbackTurned
  <2> QED
    BY <2>3, <2>4, <2>5 DEF m
<1> QED
  <2>1. \/ ~PullbackReady(w) \/ <<>> \in {Ema(w, SetupEma), Atr(w, SetupAtr)}
        \/ PullbackReady(w) /\ Ema(w, SetupEma) # <<>> /\ Atr(w, SetupAtr) # <<>>
    OBVIOUS
  <2> QED
    BY <1>6, <1>7, <2>1

\* A level rejection, upside down.
LEMMA RejectionTurned ==
    ASSUME NEW w \in Seq(Priced), w # <<>>, NEW b \in Biases
    PROVE  Matched(LevelRejection(Mirror(w), Opposite(b)), LevelRejection(w, b))
<1> DEFINE m == Mirror(w)
           here == LevelRejection(w, b)
           there == LevelRejection(m, Opposite(b))
<1>1. SetupAtr \in Nat \ {0}
  BY SignalsAssumption
<1>2. /\ Last(w) \in Priced /\ Last(m) = MirrorOf(Last(w)) /\ Len(m) = Len(w)
  BY LastTurned, MirrorWindow
<1>3. /\ Atr(m, SetupAtr) = Atr(w, SetupAtr)
      /\ Atr(w, SetupAtr) # <<>> => Atr(w, SetupAtr)[1] \in Fraction
  BY <1>1, AtrSame
<1> HIDE DEF m
<1>4. CASE Len(w) < 5 \/ Atr(w, SetupAtr) = <<>>
  <2>1. here = {} /\ there = {}
    BY <1>2, <1>3, <1>4 DEF LevelRejection
  <2> HIDE DEF here, there
  <2>2. Matched(there, here)
    BY <2>1 DEF Matched
  <2> QED
    BY <2>2 DEF here, there, m
<1>5. CASE ~(Len(w) < 5 \/ Atr(w, SetupAtr) = <<>>)
  <2> DEFINE atr == Atr(w, SetupAtr)[1]
  <2>1. here = Fade(Last(w), b, atr)
    BY <1>5 DEF LevelRejection
  <2>2. there = Fade(MirrorOf(Last(w)), Opposite(b), atr)
    BY <1>2, <1>3, <1>5 DEF LevelRejection
  <2>3. atr \in Fraction
    BY <1>3, <1>5
  <2> HIDE DEF atr
  <2>4. Matched(Fade(MirrorOf(Last(w)), Opposite(b), atr), Fade(Last(w), b, atr))
    BY <1>2, <2>3, FadeTurned
  <2> QED
    BY <2>1, <2>2, <2>4 DEF m
<1> QED
  BY <1>4, <1>5

\* The setup finds the same signal the other way.
LEMMA DetectTurned ==
    ASSUME NEW w \in Seq(Priced), w # <<>>, Last(w).close # Last(w).open,
           NEW b \in Biases, NEW r
    PROVE  Matched(Detect(Mirror(w), Opposite(b), r), Detect(w, b, r))
<1> DEFINE m == Mirror(w)
<1>1. /\ m \in Seq(Priced) /\ m # <<>> /\ Mirror(m) = w
      /\ Last(w) \in Priced /\ Last(m) = MirrorOf(Last(w))
  <2>1. m \in Seq(Priced) /\ Len(m) = Len(w) /\ Mirror(m) = w
    BY MirrorWindow
  <2>2. Len(w) # 0
    OBVIOUS
  <2>3. m # <<>>
    <3> HIDE DEF m
    <3> QED
      BY <2>1, <2>2
  <2> QED
    BY <2>1, <2>3, LastTurned
<1>2. Opposite(b) = "FLAT" <=> b = "FLAT"
  BY DEF Opposite, Biases
<1> DEFINE here == Detect(w, b, r)
           there == Detect(m, Opposite(b), r)
<1>3. CASE r = "TREND" /\ b = "LONG_ONLY"
  <2>1. Opposite(b) = "SHORT_ONLY"
    BY <1>3 DEF Opposite
  <2>2. here = Pullback(w, "LONG_ONLY") /\ there = Pullback(m, "SHORT_ONLY")
    BY <1>3, <2>1 DEF Detect
  <2>3. Matched(Pullback(m, "SHORT_ONLY"), Pullback(w, "LONG_ONLY"))
    BY LongIsShort
  <2> QED
    BY <2>2, <2>3
<1>4. CASE r = "TREND" /\ b = "SHORT_ONLY"
  <2>1. Opposite(b) = "LONG_ONLY"
    BY <1>4 DEF Opposite
  <2>2. here = Pullback(w, "SHORT_ONLY") /\ there = Pullback(m, "LONG_ONLY")
    BY <1>4, <2>1 DEF Detect
  <2>3. Last(m).close # Last(m).open
    <3>1. Last(w).close \in Int /\ Last(w).open \in Int
      BY <1>1 DEF Priced
    <3>2. Last(m).close = Turned(Last(w).close) /\ Last(m).open = Turned(Last(w).open)
      BY <1>1, MirrorFields
    <3>3. /\ Turned(Turned(Last(w).close)) = Last(w).close
          /\ Turned(Turned(Last(w).open)) = Last(w).open
      BY <3>1, TurnedWhole
    <3> HIDE DEF m
    <3> QED
      BY <3>2, <3>3
  <2> HIDE DEF m
  <2>4. Matched(Pullback(Mirror(m), "SHORT_ONLY"), Pullback(m, "LONG_ONLY"))
    BY <1>1, <2>3, LongIsShort
  <2>5. Matched(Pullback(m, "LONG_ONLY"), Pullback(w, "SHORT_ONLY"))
    BY <1>1, <2>4, MatchedSymmetric
  <2>6. Matched(there, here)
    BY <2>2, <2>5
  <2> QED
    BY <2>6 DEF m
<1>5. CASE ~(r = "TREND" /\ b # "FLAT") /\ r = "RANGE" /\ EnableSetupB
  <2>1. here = LevelRejection(w, b) /\ there = LevelRejection(m, Opposite(b))
    BY <1>2, <1>5 DEF Detect
  <2>2. Matched(LevelRejection(m, Opposite(b)), LevelRejection(w, b))
    BY RejectionTurned
  <2> QED
    BY <2>1, <2>2
<1>6. CASE ~(r = "TREND" /\ b # "FLAT") /\ ~(r = "RANGE" /\ EnableSetupB)
  <2> HIDE DEF m
  <2>1. here = {} /\ there = {}
    BY <1>2, <1>6 DEF Detect
  <2> HIDE DEF here, there
  <2>2. Matched(there, here)
    BY <2>1 DEF Matched
  <2> QED
    BY <2>2 DEF here, there, m
<1> QED
  BY <1>3, <1>4, <1>5, <1>6 DEF Biases

\* What matches has as many signals, each the other way, with as wide a stop.
LEMMA MatchedMeans ==
    ASSUME NEW here, NEW there, Matched(there, here)
    PROVE  /\ Cardinality(here) = Cardinality(there)
           /\ \A s \in here, m \in there :
                 /\ m.direction = -s.direction
                 /\ m.entry = Turned(s.entry)
                 /\ Minus(Whole(m.entry), m.stop).num * s.stop.den
                      = Minus(s.stop, Whole(s.entry)).num * m.stop.den
                 /\ m.setup = s.setup
<1>1. CASE here = {} /\ there = {}
  BY <1>1
<1>2. CASE \E s, m : here = {s} /\ there = {m} /\ IsOpposite(m, s)
  <2>1. PICK s, m : here = {s} /\ there = {m} /\ IsOpposite(m, s)
    BY <1>2
  <2>2. Cardinality(here) = 1 /\ Cardinality(there) = 1
    BY <2>1, FS_Singleton
  <2>3. /\ m.direction = -s.direction /\ m.entry = Turned(s.entry) /\ m.setup = s.setup
        /\ s.entry \in Int /\ IsTurned(m.stop, s.stop)
    BY <2>1 DEF IsOpposite
  <2> DEFINE e == s.stop
             f == m.stop
             x == s.entry
  <2>4. /\ e \in Fraction /\ f \in Fraction /\ f.den = e.den /\ x \in Int
        /\ f.num = 2 * (Axis * e.den) - e.num
        /\ e.num \in Int /\ e.den \in Int /\ Axis \in Int /\ Turned(x) \in Int
    <3>1. IsTurned(f, e) /\ x \in Int
      BY <2>3
    <3> HIDE DEF e, f, x
    <3>2. /\ e \in Fraction /\ f \in Fraction /\ f.den = e.den
          /\ f.num = 2 * (Axis * e.den) - e.num
      BY <3>1 DEF IsTurned
    <3>3. e.num \in Int /\ e.den \in Int
      BY <3>2 DEF Fraction
    <3>4. Axis \in Int
      BY AxisType
    <3> QED
      BY <3>1, <3>2, <3>3, <3>4, TurnedWhole
  <2> HIDE DEF e, f, x
  <2>5. Minus(Whole(Turned(x)), f).num = Turned(x) * f.den - f.num
    BY <2>4, MinusWhole
  <2>6. Minus(e, Whole(x)).num = e.num - x * e.den
    BY <2>4, MinusWhole
  <2>7. Turned(x) * f.den - f.num = e.num - x * e.den
    <3>1. (2 * Axis - x) * e.den - (2 * (Axis * e.den) - e.num)
             = e.num - x * e.den
      BY <2>4
    <3> QED
      BY <2>4, <3>1 DEF Turned
  <2>8. Minus(Whole(Turned(x)), f).num * e.den = Minus(e, Whole(x)).num * f.den
    BY <2>4, <2>5, <2>6, <2>7
  <2> QED
    BY <2>1, <2>2, <2>3, <2>8 DEF e, f, x
<1> QED
  BY <1>1, <1>2 DEF Matched

\* Long and short are one rule, for any periods and thresholds and any candles:
\* bias.py, regime.py and setups.py favour neither side.
THEOREM LongAndShortAreOneRule == WindowSpec => []MirrorSymmetric
<1>1. window \in Seq(Priced) => MirrorSymmetric
  <2> SUFFICES ASSUME window \in Seq(Priced) PROVE MirrorSymmetric
    OBVIOUS
  <2>1. GetBias(Mirror(window)) = Opposite(GetBias(window))
    BY BiasTurned
  <2>2. GetRegime(Mirror(window)) = GetRegime(window)
    BY RegimeSame
  <2>3. ASSUME window # <<>>, Last(window).close # Last(window).open,
               NEW b \in Biases, NEW r \in Regimes
        PROVE  Matched(Detect(Mirror(window), Opposite(b), r), Detect(window, b, r))
    BY <2>3, DetectTurned
  <2> QED
    BY <2>1, <2>2, <2>3, MatchedMeans DEF MirrorSymmetric
<1> QED
  BY <1>1, WindowPriced, PTL
==============================================================================
