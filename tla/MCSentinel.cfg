CONSTANTS
    k1 = k1
    k2 = k2
    Keepers = {k1, k2}
    Self = k1
    Venues = {}
    Configs <- MCConfigs
    Targets = {0}
    Amounts = {}
    Utils = {7000, 8500, 9500}
    Balances = {0, 1}
    None = None
    MaxRestarts = 1
SPECIFICATION SentinelFairSpec
PROPERTIES NeverReopens FullUtilizationDrains
