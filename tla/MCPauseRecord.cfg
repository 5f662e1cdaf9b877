CONSTANTS
    a1 = a1
    a2 = a2
    Accounts = {a1, a2}
    None = None
    MaxPauseDuration = 3
    MaxExtensions = 2
    LastPauseTime = 4
    MaxEvents = 4
    Lookback = 5
    LedgerSeconds = 2
    Margin = 1
    Paces = {1, 2, 3}
    Retention = 3
    MaxClicks = 1
SPECIFICATION MCSpec
INVARIANTS ReplayIsTrue PauseStatsExact GuardianPanelIsTrue
PROPERTIES ImplementsPauseSwitch
