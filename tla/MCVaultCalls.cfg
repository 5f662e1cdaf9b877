CONSTANTS
    Target = 2
    RefillBandBps = 5000
    MaxRecalls = 2
    Window = 4
    MinInterval = 2
    XlmFloor = 1
    XlmTopup = 2
    KeeperBps = 9700
    PolicyBps = 9500
    PerCallCap = 2
    Prices = {1, 2}
    PriceScale = 2
    Lifetime = 1
    Payments = {2}
    None = None
    MaxLedger = 5
    MaxXlm = 2
    MaxFaults = 1
SPECIFICATION FairSpec
INVARIANTS NeverOverRecalled LogIsTrue
PROPERTIES OnlyLossHangs SwapsAreFair
CHECK_DEADLOCK FALSE
