----------------------------- MODULE MCBacktest ------------------------------
(***************************************************************************)
(* A short replay over two days of five minutes with sessions of three: a  *)
(* stop of two half pips, a target of three, one full loss to the limit.   *)
(***************************************************************************)
EXTENDS Backtest

MCInstruments == {"EUR_USD"}
MCUsdSign == [i \in MCInstruments |-> -1]
MCStopFloor == [i \in MCInstruments |-> 2]

\* No file; and a file with a release for every pair, one for the pair, one for
\* another, and unreadable rows.  Its blackout runs from the last minute of the
\* first session to the first of the second.
MCCalendarFiles ==
    {{},
     {[instrument |-> "*", time |-> <<4>>],
      [instrument |-> "EUR_USD", time |-> <<5>>],
      [instrument |-> "USD_JPY", time |-> <<7>>],
      [instrument |-> "EUR_USD", time |-> <<>>],
      [instrument |-> "", time |-> <<2>>]}}
=============================================================================
