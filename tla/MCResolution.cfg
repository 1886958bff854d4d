CONSTANTS
    Markets = {m1, m2}
    Candidates = {o1, e1}
    Oracle = {o1}
    Workers = {w1, w2}
    Window = 1
    MaxClock = 2
    MaxFaults = 2
SPECIFICATION FairSpec
INVARIANTS
    ResolvedOnce
    WindowRespected
PROPERTIES
    FinalIsFinal
    EligibleIsFinalized
