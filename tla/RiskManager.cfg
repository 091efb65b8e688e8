SPECIFICATION Spec
CONSTANTS
    Instruments <- MCInstruments
    UsdSign <- MCUsdSign
    StopFloor <- MCStopFloor
    Signals <- MCSignals
    Outcomes <- MCOutcomes
    Scale = 200
    RiskPerTrade = 2
    DeriskedPerTrade = 1
    MaxGrossHeat = 6
    MaxFactorExposure = 4
    DailyLossLimit = 6
    MaxConcurrent = 4
    MaxSpread = 1
    MinAtr = 3
    DeriskAfterLosses = 3
    StartBalance = 1000000
    MaxDay = 2
    MaxCloses = 4
INVARIANTS
    TypeOK
    LazyRolloverExact
    HeatWithinCap
    WorstDayBounded
PROPERTIES
    NoEntryPastLimit
