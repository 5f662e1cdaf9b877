CONSTANTS
    a1 = a1
    k1 = k1
    Router = router
    Accounts = {a1, router}
    MaxPauseDuration = 1
    MaxExtensions = 0
    LastPauseTime = 2
    Configs <- MCConfigs
    Prices = {100, 120}
    Decimals = {1}
    RouterDecimals = 1
    MaxTwapPeriods = 1
    OneFeedWindow = 0
    MaxBps = 99999
    MaxTime = 2
    Keepers = {k1}
    Venues = {}
    EngineConfigs <- MCEngineConfigs
    Targets = {0}
    Amounts = {}
    Utils = {9500}
    Balances = {0, 1}
    None = None
SPECIFICATION BreakerSpec
PROPERTIES ReturnIsCorroborated LevelIsSettled
