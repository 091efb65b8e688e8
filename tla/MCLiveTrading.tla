---------------------------- MODULE MCLiveTrading ----------------------------
(* Two pairs, one bought and one sold, in cents of a balance of 10 000.00.   *)
EXTENDS LiveTrading

MCInstruments == {"EUR_USD", "USD_JPY"}
MCUsdSign == [i \in MCInstruments |-> IF i = "EUR_USD" THEN -1 ELSE 1]
MCStopFloor == [i \in MCInstruments |-> IF i = "EUR_USD" THEN 20 ELSE 30]

MCSignals ==
    {[instrument |-> i, direction |-> MCUsdSign[i], spread |-> 1, atr |-> 8,
      pipValue |-> 1] : i \in MCInstruments}

\* The stop is hit; the take profit is.
MCOutcomes == {-10, 13}
=============================================================================
