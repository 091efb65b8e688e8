------------------------------ MODULE MCHistory ------------------------------
(* Two pairs, pages of two candles; a third candle ends on a page's edge.    *)
EXTENDS History

MCPairs == <<"EUR_USD", "USD_JPY">>
=============================================================================
