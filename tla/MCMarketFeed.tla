---------------------------- MODULE MCMarketFeed ----------------------------
(* One pair: pairs meet only at a reconnect, which resets them all.          *)
EXTENDS MarketFeed

MCWidths == {2, 3}
=============================================================================
