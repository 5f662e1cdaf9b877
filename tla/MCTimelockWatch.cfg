CONSTANTS
    a1 = a1
    Accounts = {a1}
    Timelock = Timelock
    None = None
    Fees = {1, 3}
    MaxFee = 2
    ProposalDelay = 2
    MaxProposals = 2
    MaxTime = 3
    Lookback = 1
SPECIFICATION WatchSpec
INVARIANT RowsAreTrue
PROPERTIES QueueExact ChangeWaitsOut
CHECK_DEADLOCK FALSE
