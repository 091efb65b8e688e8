SPECIFICATION Spec
CONSTANTS
    Instruments = {"EUR_USD"}
    Widths <- MCWidths
    MaxLen = 2
    Prices = {1, 2}
    MaxMinute = 4
    MaxTicks = 4
    MaxConnections = 2
    MaxBoots = 1
INVARIANTS
    MarketIsReplay
    MinuteOfOneConnection
    SeriesOrdered
    UntornCandlesTrue
CHECK_DEADLOCK FALSE
