SPECIFICATION Spec
CONSTANTS
    Instruments <- MCInstruments
    UsdSign <- MCUsdSign
    StopFloor <- MCStopFloor
    Scale = 200
    RiskPerTrade = 2
    DeriskedPerTrade = 1
    MaxGrossHeat = 6
    MaxFactorExposure = 4
    DailyLossLimit = 3
    MaxConcurrent = 4
    MaxSpread = 2
    MinAtr = 0
    DeriskAfterLosses = 2
    DayLength = 5
    SessionStart = 1
    SessionEnd = 4
    BufferBefore = 1
    BufferAfter = 1
    Instrument = "EUR_USD"
    StartBalance = 10000
    HalfSpread = 1
    Slippage = 0
    PipCents = 1
    TpNum = 3
    TpDen = 2
    MaxMinutes = 2
    MinProgress = 1
    UseTrailing = TRUE
    TrailStart = 1
    TrailDistance = 1
    Atrs = {0}
    Prices = {0, 1, 2, 3, 4, 5}
    Horizon = 6
    CalendarFiles <- MCCalendarFiles
INVARIANTS
    GateHoldsEntriesOnly
    BooksAgree
PROPERTIES
    NoLookaheadNoLuck
    LossWithinRisk
CHECK_DEADLOCK FALSE
