CONSTANTS
    Absent = Absent
    Configs <- MCConfigs
    Amounts = {0, 1, 2}
    SecondsPerLedger = 4
    U32 = 64
    MinTemporaryTtl = 2
    CloseTimes = {1, 2, 4}
    MaxTime = 14
    Admins = {a, b, c}
    AdminThreshold = 2
    CoSigners = {a, b}
    Agent = agent
    Nil = Nil
    MaxRules = 3
SPECIFICATION MCSpec
INVARIANTS CapPerEpoch NeverLockedOut RescueIsReal
PROPERTIES ImplementsEpochBudget
CHECK_DEADLOCK FALSE
