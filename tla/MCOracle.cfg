CONSTANTS
    Markets = {m1}
    Results = {r1, r2}
    Polls = {p1}
    Consumers = {c1}
    MaxRetries = 2
    SetWorks = {TRUE, FALSE}
    Providers = 2
    ServiceRetries = 1
    AdapterRetries = 0
    FallbackRetries = 1
    MaxPolls = 3
    MaxFaults = 1
SPECIFICATION FairSpec
INVARIANTS
    TypeOK
    OverlapsNeedFaults
    AckedIsHandled
    CandidateIsSubmitted
PROPERTY
    EveryPollEnds
