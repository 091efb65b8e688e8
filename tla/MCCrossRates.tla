---------------------------- MODULE MCCrossRates ----------------------------
(* One currency quoted each way, one that is not quoted, and the account's.   *)
EXTENDS CrossRates

MCPairs == {"EUR_USD", "USD_JPY", "USD_XYZ", "USD_SGD"}
MCQuoteCcy ==
    [p \in MCPairs |->
        CASE p = "EUR_USD" -> "USD" [] p = "USD_JPY" -> "JPY"
          [] p = "USD_XYZ" -> "XYZ" [] p = "USD_SGD" -> "SGD"]
MCNeeded == <<"JPY", "USD", "XYZ">>
MCQuoted ==
    [c \in {"JPY", "USD", "XYZ"} |->
        CASE c = "JPY" -> "inverted" [] c = "USD" -> "direct"
          [] c = "XYZ" -> "none"]
=============================================================================
