SPECIFICATION Spec
CONSTANTS
    Busy = Busy
    Other = Other
    Senders = {Busy, Other}
    BatchSize = 2
    MaxLen = 2
    TrimLen = 1
    LowLen = 0
    Quota <- BusyQuota
    MaxDeaths = 1
    MaxFailures = 0
CHECK_DEADLOCK FALSE
INVARIANTS
    TypeOK
    OverflowIsTrimmed
    OvertakenOnlyIfChecked
    NoEmptyBatch
PROPERTY
    ImplementsChannel
