SPECIFICATION Spec
CONSTANTS
    Clients = {c1, c2}
    Responses = {r1, r2}
    Sockets = {s1, s2}
    None = None
    IsPrimary = FALSE
    QueueSize = 2
    Overlap = TRUE
    Captures = TRUE
    MaxMessages = 2
SYMMETRY Symmetry
INVARIANTS
    NoUseAfterEnd
    RegisteredSocketOpen
    WorkerPollFlushable
PROPERTY
    NothingDroppedSilently
