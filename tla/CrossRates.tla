------------------------------ MODULE CrossRates ------------------------------
(***************************************************************************)
(* CrossRateBook: what a unit of each quote currency is worth in the       *)
(* account's currency, resolved once, fetched again at most every          *)
(* RefreshSecs, and read when a trade is sized.                            *)
(*                                                                         *)
(* A refresh is a series of requests with retries; quotes move and time    *)
(* passes between them.  A worth is a fraction <<numerator, denominator>>. *)
(***************************************************************************)
EXTENDS Integers, SequencesExt

CONSTANTS
    Account,        \* the account's currency
    Pairs,          \* the tradeable pairs
    QuoteCcy,       \* pair -> its quote currency
    Needed,         \* CrossRateBook._needed, in order
    Quoted,         \* currency -> which way round the broker quotes it, if any
    RefreshSecs,    \* refresh_secs, in units of time
    MaxAttempts,    \* len(_sleeps) + 1
    Mids            \* bound: the mid prices

\* Ages are the same beyond this.
FullAge == RefreshSecs + 1

Ways == {"direct", "inverted"}
Currencies == ToSet(Needed)

ASSUME RatesAssumption ==
    /\ QuoteCcy \in [Pairs -> Currencies \cup {Account}]
    /\ Needed \in Seq(Currencies) /\ Needed # <<>> /\ IsInjective(Needed)
    /\ Account \notin Currencies
    /\ Quoted \in [Currencies -> Ways \cup {"none"}]
    /\ RefreshSecs \in Nat \ {0} /\ MaxAttempts \in Nat \ {0}
    /\ Mids \subseteq Nat \ {0}

VARIABLES
    trouble,        \* requests may fail
    mid,            \* currency -> mid price of the instrument that quotes it
    since,          \* age of _last_refresh, up to FullAge
    way,            \* _instr_for: currency -> how it was resolved, or "none"
    rate,           \* MarketState: currency -> <<>> or <<worth>>
    step,           \* what the handler of a candle does
    todo,           \* currencies that refresh has still to do
    attempt,        \* of the request in flight
    age,            \* observer: currency -> age of its rate, up to FullAge
    old,            \* observer: rates to be refreshed when the candle came
    missed,         \* observer: currencies whose last fetch failed
    moved           \* observer: currencies whose quote moved since the fetch

book == <<since, way, rate>>
handler == <<step, todo, attempt>>
observers == <<age, old, missed, moved>>
vars == <<trouble, mid, book, handler, observers>>

Worths == {<<m, 1>> : m \in Mids} \cup {<<1, m>> : m \in Mids}

TypeOK ==
    /\ trouble \in BOOLEAN
    /\ mid \in [Currencies -> Mids]
    /\ since \in 0..FullAge
    /\ way \in [Currencies -> Ways \cup {"none"}]
    /\ rate \in [Currencies -> {<<>>} \cup {<<w>> : w \in Worths}]
    /\ step \in Ways \cup {"idle", "fetch", "size"}
    /\ todo \in Seq(Currencies)
    /\ step \in Ways \cup {"fetch"} <=> todo # <<>>
    /\ attempt \in 1..MaxAttempts
    /\ age \in [Currencies -> 0..FullAge]
    /\ old \subseteq Currencies /\ missed \subseteq Currencies
    /\ moved \subseteq Currencies

\* What one unit of c is worth when its instrument, quoted that way, is at m.
Worth(m, quoted) == IF quoted = "inverted" THEN <<1, m>> ELSE <<m, 1>>

\* The rate that _refresh_one writes.
FetchedRate(m, resolved) == IF resolved = "inverted" THEN <<1, m>> ELSE <<m, 1>>

\* A new process; _last_refresh = None refreshes like one of full age.
Fresh ==
    /\ since' = FullAge
    /\ way' = [c \in Currencies |-> "none"]
    /\ rate' = [c \in Currencies |-> <<>>]
    /\ step' = "idle" /\ todo' = <<>> /\ attempt' = 1
    /\ age' = [c \in Currencies |-> 0]
    /\ old' = {} /\ missed' = {} /\ moved' = {}

Init ==
    /\ trouble = FALSE
    /\ mid \in [Currencies -> Mids]
    /\ since = FullAge
    /\ way = [c \in Currencies |-> "none"]
    /\ rate = [c \in Currencies |-> <<>>]
    /\ step = "idle" /\ todo = <<>> /\ attempt = 1
    /\ age = [c \in Currencies |-> 0]
    /\ old = {} /\ missed = {} /\ moved = {}

-----------------------------------------------------------------------------
\* _refresh_one begins with the first of the currencies, if there is one.
Begin(currencies) ==
    /\ todo' = currencies
    /\ step' = IF currencies = <<>> THEN "size"
               ELSE IF way[Head(currencies)] = "none" THEN "direct"
               ELSE "fetch"

Throttled == since < RefreshSecs

\* A candle of a tradeable pair reaches refresh.
Candle ==
    /\ step = "idle"
    /\ old' = {c \in Currencies : age[c] >= RefreshSecs}
    /\ IF Throttled THEN step' = "size" /\ UNCHANGED <<since, todo>>
       ELSE since' = 0 /\ Begin(Needed)
    /\ UNCHANGED <<trouble, mid, way, rate, attempt, age, missed, moved>>

Requesting == step \in Ways \cup {"fetch"}
Current == Head(todo)

\* The broker has the instrument that is asked for.
Exists == Quoted[Current] = IF step = "fetch" THEN way[Current] ELSE step

\* The instrument is found.
Answered ==
    /\ step \in Ways /\ Exists
    /\ way' = [way EXCEPT ![Current] = step]
    /\ step' = "fetch" /\ attempt' = 1
    /\ UNCHANGED <<trouble, mid, since, rate, todo, observers>>

Fetched ==
    /\ step = "fetch" /\ Exists
    /\ rate' = [rate EXCEPT ![Current] =
                   <<FetchedRate(mid[Current], way[Current])>>]
    /\ Begin(Tail(todo)) /\ attempt' = 1
    /\ age' = [age EXCEPT ![Current] = 0]
    /\ old' = old \ {Current} /\ missed' = missed \ {Current}
    /\ moved' = moved \ {Current}
    /\ UNCHANGED <<trouble, mid, since, way>>

\* Mutant: the attempts are not counted against their limit.
RetriedForEver ==
    /\ Requesting /\ trouble
    /\ attempt' = attempt + 1
    /\ UNCHANGED <<trouble, mid, book, step, todo, observers>>

\* _request_with_retry: a connection error or a 5xx is slept upon.
Retried ==
    /\ Requesting /\ trouble /\ attempt < MaxAttempts
    /\ attempt' = attempt + 1
    /\ UNCHANGED <<trouble, mid, book, step, todo, observers>>

\* Mutant: one currency that fails ends the whole refresh.
GiveUpAll ==
    /\ step' = "size" /\ todo' = <<>>
    /\ missed' = missed \cup {Current}

\* refresh goes on with the next currency; the rate of this one stays.
GiveUp ==
    /\ Begin(Tail(todo))
    /\ missed' = missed \cup {Current}

\* Mutant: the inverted instrument is what is left, and is not asked for.
FailedResolving ==
    /\ Requesting /\ (trouble \/ ~Exists)
    /\ attempt' = 1
    /\ IF step = "direct"
       THEN /\ step' = "fetch" /\ way' = [way EXCEPT ![Current] = "inverted"]
            /\ UNCHANGED <<todo, missed>>
       ELSE GiveUp /\ UNCHANGED way
    /\ UNCHANGED <<trouble, mid, since, rate, age, old, moved>>

\* A request raises: the last attempt, an error that is not retried, or an
\* instrument that the broker does not have.
Failed ==
    /\ Requesting /\ (trouble \/ ~Exists)
    /\ attempt' = 1
    /\ IF step = "direct" THEN step' = "inverted" /\ UNCHANGED <<todo, missed>>
       ELSE GiveUp
    /\ UNCHANGED <<trouble, mid, book, age, old, moved>>

\* Mutant: a currency without a rate counts like the account's own.
PipValueOrOne(pair) ==
    IF QuoteCcy[pair] = Account \/ rate[QuoteCcy[pair]] = <<>> THEN <<<<1, 1>>>>
    ELSE rate[QuoteCcy[pair]]

\* MarketState.pip_value_per_unit, over pip_size; <<>> is the 0.0 that the risk
\* manager rejects.
PipValue(pair) ==
    IF QuoteCcy[pair] = Account THEN <<<<1, 1>>>> ELSE rate[QuoteCcy[pair]]

\* on_candle_close, which may size a trade with PipValue.
Size ==
    /\ step = "size"
    /\ step' = "idle"
    /\ UNCHANGED <<trouble, mid, book, todo, attempt, observers>>

Older(a) == IF a < FullAge THEN a + 1 ELSE a

Tick ==
    /\ since' = Older(since)
    /\ age' = [c \in Currencies |-> Older(age[c])]
    /\ UNCHANGED <<trouble, mid, way, rate, handler, old, missed, moved>>

Move(c) ==
    /\ mid' \in {[mid EXCEPT ![c] = m] : m \in Mids \ {mid[c]}}
    /\ moved' = moved \cup {c}
    /\ UNCHANGED <<trouble, book, handler, age, old, missed>>

Weather ==
    /\ trouble' = ~trouble
    /\ UNCHANGED <<mid, book, handler, observers>>

Restart ==
    /\ trouble
    /\ Fresh
    /\ UNCHANGED <<trouble, mid>>

Engine == Candle \/ Answered \/ Fetched \/ Failed \/ Size

Next ==
    \/ Engine \/ Retried \/ Tick \/ Weather \/ Restart
    \/ \E c \in Currencies : Move(c)

Spec == Init /\ [][Next]_vars

\* Candles keep coming (EventsFlowAgain of LiveRunner), a request is answered
\* or fails, and time passes.
FairSpec == Spec /\ WF_vars(Engine) /\ WF_vars(Tick)

-----------------------------------------------------------------------------
\* live_engine.py:6, "keeps account-ccy cross rates fresh": a trade is sized
\* with a rate that had not reached RefreshSecs when its candle came, or was
\* fetched since; only the failure of its own fetch excuses an older one.
FreshWhenSized ==
    step = "size" =>
        \A c \in Currencies : rate[c] # <<>> /\ c \in old => c \in missed

\* live_engine.py:51: what cannot be converted is not sized.  A pip value is
\* there only for the account's own currency and for those the broker quotes,
\* and it is the true one unless the quote moved after the fetch.
PipValueTrue ==
    \A pair \in Pairs :
        LET c == QuoteCcy[pair]
        IN  IF c = Account THEN PipValue(pair) = <<<<1, 1>>>>
            ELSE PipValue(pair) # <<>> =>
                    /\ Quoted[c] # "none"
                    /\ c \notin moved => PipValue(pair) = <<Worth(mid[c], Quoted[c])>>

\* Failures leave nothing behind: once they are over every currency that the
\* broker quotes is fetched again and again.
RatesComeBack ==
    <>[](~trouble) =>
        \A c \in {d \in Currencies : Quoted[d] # "none"} :
            []<><<Fetched /\ Current = c>>_vars
=============================================================================
