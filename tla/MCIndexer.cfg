CONSTANTS
    NumEvents = 2
    Kinds = {"trade", "empty_trade", "large_trade", "resolution", "other"}
    MaxLedger = 3
    Markets = {m1, m2}
    Unlisted = {m2}
    Window = 2
    FlushEvery = 2
    PageLimit = 1
    MaxFaults = 2
SPECIFICATION FairSpec
INVARIANTS
    WrittenOnce
    OnlyTradesAreLost
PROPERTIES
    ImplementsEventLog
    CursorNeverMovesBack
    EveryEventWritten
