SPECIFICATION WindowSpec
CONSTANTS
    BiasEma = 2
    SlopeLookback = 1
    StructureLookback = 2
    AtrPeriod = 2
    AtrAvgPeriod = 2
    BodyLookback = 3
    ExpansionTrend <- MCExpansionTrend
    DeadFloor <- MCDeadFloor
    BodyTrend <- MCBodyTrend
    BodyChop <- MCBodyChop
    SetupEma = 2
    SetupAtr = 2
    SwingLookback = 3
    RoundStep = 5
    TouchAtr <- MCTouchAtr
    WickRatio <- MCWickRatio
    LevelTol <- MCLevelTol
    StopAtr <- MCStopAtr
    EnableSetupB = TRUE
    Shapes <- MCShapes
    FirstPrice = 100
    MaxCandles = 7
INVARIANTS
    MirrorSymmetric
    DecisionsGrounded
CHECK_DEADLOCK FALSE
