CONSTANTS
    Scale = 64
    FastAlpha = 32
    SlowAlpha = 19
    Trailing = 2
    RecallHours = 2
    XlmFeeFloor = 1
    LowerAfter = 2
    BandBps = 3000
    RefillBandBps = 5000
    NotBelow = NotBelow
    Amounts = {1, 4}
    MaxBurn = 5
    MaxHour = 4
    LookbackHours = 3
    Balances = {0, 10}
    TargetMin = 2
    TargetMax = 7
    Nothing = Nothing
    MaxMishaps = 1
    BacktestHours = 2
    TicksPerHour = 3
    MaxPoints = 8
    MaxClock = 3
    Window = 2
    SampleBalances = {0, 1, 2}
    SampleTarget = 2
    CriticalFloor = 1
    MaxReports = 1
    MaxTears = 1
    Grain = 1
    Garbage = Garbage
    NoFloor = NoFloor
    NoSnapshot = NoSnapshot
    Torn = Torn
SPECIFICATION MCSpec
INVARIANT ReportIsHonest
PROPERTIES LowersAfterSustained EventuallyCovered
CHECK_DEADLOCK FALSE
