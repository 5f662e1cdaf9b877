CONSTANTS
    k1 = k1
    k2 = k2
    Keepers = {k1, k2}
    Venues = {"blend", "other"}
    Configs <- MCConfigs
    Targets = {0, 1, 2, 3}
    Amounts <- MCAmounts
    Utils = {7200, 8600, 9800}
    Balances = {0, 1}
    None = None
    Asked = Asked
    MaxRules = 3
    Absent = Absent
    MaxMoves = 2
SPECIFICATION MCSpec
INVARIANTS CapRespected PagesAreTrue PanelTellsTheTruth
PROPERTY NoFlapping
CHECK_DEADLOCK FALSE
