SPECIFICATION FairSpec
CONSTANTS
    Trades = {1, 2, 3}
    m1 = m1
    m2 = m2
    Markets = {m1, m2}
    MarketOf <- MCMarketOf
    EmptyPrefix = TRUE
    MaxTime = 2
    MaxEntries = 2
    BatchSize = 2
    MaxFaults = 1
INVARIANTS
    LoggedInBoth
    CopiesNeedConflicts
    BackfillComplete
PROPERTY BackfillEnds
