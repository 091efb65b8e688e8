------------------------------ MODULE MCSignals ------------------------------
(* Averages over two candles.  A trend candle and a rejection each way, the  *)
(* rejections behind a gap.                                                  *)
EXTENDS Signals

MCShapes ==
    {[gap |-> 0, body |-> 12, up |-> 0, down |-> 0],
     [gap |-> 0, body |-> -12, up |-> 0, down |-> 0],
     [gap |-> -2, body |-> 1, up |-> 0, down |-> 2],
     [gap |-> 2, body |-> -1, up |-> 2, down |-> 0]}

MCExpansionTrend == Frac(11, 10)
MCDeadFloor == Frac(7, 10)
MCBodyTrend == Frac(11, 20)
MCBodyChop == Frac(2, 5)
MCTouchAtr == Frac(1, 4)
MCWickRatio == Frac(1, 2)
MCLevelTol == Frac(3, 10)
MCStopAtr == Frac(1, 10)
=============================================================================
