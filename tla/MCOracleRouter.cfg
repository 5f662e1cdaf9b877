CONSTANTS
    None = None
    Configs <- MCConfigs
    Prices = {100, 104, 120}
    Decimals = {1, 4}
    RouterDecimals = 1
    MaxTwapPeriods = 2
    OneFeedWindow = 1
    MaxBps = 99999
    MaxTime = 3
SPECIFICATION Spec
INVARIANT HealthyIsCorroborated
PROPERTIES JumpNeedsTwoFeeds ReadsAgree
