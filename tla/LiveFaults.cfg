SPECIFICATION FairSpec
CONSTANTS
    Instruments <- MCInstruments
    UsdSign <- MCUsdSign
    StopFloor <- MCStopFloor
    Signals <- MCSignals
    Outcomes <- MCOutcomes
    Scale = 200
    RiskPerTrade = 2
    DeriskedPerTrade = 1
    MaxGrossHeat = 6
    MaxFactorExposure = 4
    DailyLossLimit = 6
    MaxConcurrent = 4
    MaxSpread = 1
    MinAtr = 3
    DeriskAfterLosses = 3
    StartBalance = 1000000
    MaxTrades = 2
    MaxFaults = 2
    Faults = {"restart", "crash", "read", "bootRead", "balance", "pnlUnknown", "orderLost", "closeLost", "closeUnfilled", "openRow", "closeRow", "journal", "stop"}
INVARIANTS
    ClosedOnlyIfOver
    BrokerReasonTrue
    EveryTradeKnown
    OneTradePerInstrument
    RiskMirrorsRows
    BalanceIsBooked
PROPERTIES
    BookedOnce
    ImplementsTradeLife
