---------------------------- MODULE MCRiskManager ----------------------------
(* Pairs that bet against USD, one that bets on it and a cross; a balance of *)
(* 10 000.00, BotConfig's starting_balance, in cents.                        *)
EXTENDS RiskManager

MCInstruments == {"EUR_USD", "GBP_USD", "AUD_USD", "USD_JPY", "EUR_GBP"}
MCUsdSign == [i \in MCInstruments |->
    CASE i = "USD_JPY" -> 1 [] i = "EUR_GBP" -> 0 [] OTHER -> -1]
MCStopFloor == [i \in MCInstruments |-> IF i = "USD_JPY" THEN 30 ELSE 20]

Clean(instrument, direction) ==
    [instrument |-> instrument, direction |-> direction,
     spread |-> 1, atr |-> 8, pipValue |-> 1]

\* Clean signals, and one for each way a signal itself is refused: spread,
\* volatility, a pip value of 0 and a stop too wide for one unit.
MCSignals ==
    {Clean(i, 1) : i \in {"EUR_USD", "GBP_USD", "USD_JPY", "EUR_GBP"}}
    \cup {Clean("EUR_USD", -1)}
    \cup {[instrument |-> "EUR_USD", direction |-> 1,
           spread |-> s, atr |-> a, pipValue |-> v] :
               s \in {1, 2}, a \in {2, 8}, v \in {0, 1000000}}

\* Stopped out; the take profit.
MCOutcomes == {-10, 13}
=============================================================================
