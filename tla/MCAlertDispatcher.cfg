CONSTANTS
    n1 = n1
    n2 = n2
    stranger = stranger
    update = update
    Verifiers = {n1, n2, stranger}
    Trusted = {n1, n2}
    QuorumSize = 2
    WindowSeconds = 1
    Updates = {update}
    PriceOf <- MCPriceOf
    Quotes = {100, 120}
    DivergenceHardBps = 1000
    None = None
    MaxTime = 3
    MaxPauses = 2
    MaxFaults = 1
    Levels <- MCLevels
    LedgerSeconds = 2
    Margin = 0
    Lookback = 1
    Paces = {1, 2}
    Configs <- MCConfigs
    MaxRecalls = 1
SPECIFICATION MCSpec
INVARIANTS RepeatsAreFaults PassedWasTried
PROPERTIES QuorumIsReal HandedOncePerWindow EachPauseTold LevelIsTold
CHECK_DEADLOCK FALSE
