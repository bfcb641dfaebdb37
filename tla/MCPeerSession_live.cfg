SPECIFICATION FairSpec
CONSTANTS
    Clients = {c1, c2}
    Responses = {r1, r2}
    Sockets = {s1, s2}
    None = None
    IsPrimary = FALSE
    QueueSize = 2
    Overlap = FALSE
    Captures = TRUE
    MaxMessages = 2
PROPERTIES
    ImplementsMailbox
    WrittenInOrder
    ConnectedStaysRegistered
    PollAnswered
    QueuedIsWritten
