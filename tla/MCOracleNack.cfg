CONSTANTS
    Markets = {m1}
    Results = {r1}
    Polls = {p1}
    Consumers = {c1}
    MaxRetries = 2
    SetWorks = {TRUE}
    Providers = 1
    ServiceRetries = 0
    AdapterRetries = 0
    FallbackRetries = 0
    MaxPolls = 1
    MaxFaults = 0
SPECIFICATION WorkerFairSpec
PROPERTY
    NackIsRedelivered
