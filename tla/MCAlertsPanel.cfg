CONSTANTS
    ChallengeTtl = 0
    SessionTtl = 1
    CookieMaxAge = 1
    None = None
    MaxTime = 2
    MaxNonces = 1
    MaxFaults = 1
    Nothing = Nothing
    Unserved = Unserved
    Failure = Failure
    MaxRuns = 2
    Valid = {c0, c1}
    Malformed = {bad}
    DefaultConfig = c0
    MaxWrites = 2
SPECIFICATION MCSpec
INVARIANTS OneSessionPerChallenge FailsClosed WritersWereAdmins
PROPERTIES ShownNeverGoesBack BusyEnds
CHECK_DEADLOCK FALSE
