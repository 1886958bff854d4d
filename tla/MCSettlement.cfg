CONSTANTS
    Trades = {t1, t2}
    Workers = {w1, w2}
    MaxAttempts = 2
    MaxStalled = 1
    MaxFaults = 1
SPECIFICATION FairSpec
INVARIANTS
    TypeOK
    CompletedIsSettled
    DuplicatesNeedFaults
    FailedIsDeadLettered
PROPERTY
    EveryJobEnds
