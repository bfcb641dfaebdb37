SPECIFICATION FairSpec
CONSTANTS
    Busy = Busy
    Other = Other
    Senders = {Busy}
    BatchSize = 2
    MaxLen = 2
    TrimLen = 1
    LowLen = 0
    Quota <- SoloQuota
    MaxDeaths = 1
    MaxFailures = 2
CHECK_DEADLOCK FALSE
PROPERTY
    EveryMessageSettles
