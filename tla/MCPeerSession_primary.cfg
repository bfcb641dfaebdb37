SPECIFICATION Spec
CONSTANTS
    Clients = {c1, c2}
    Responses = {r1, r2}
    Sockets = {s1}
    None = None
    IsPrimary = TRUE
    QueueSize = 1
    Overlap = TRUE
    Captures = TRUE
    MaxMessages = 2
SYMMETRY Symmetry
INVARIANTS
    SessionTypeOK
    RedeliveryOnlyAfterTimeout
