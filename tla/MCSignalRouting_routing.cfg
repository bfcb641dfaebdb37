\* Two arrays of up to two signals to a peer that comes, goes and moves.
SPECIFICATION FairSpec
CONSTANTS
    Arrays = {a1, a2}
    MaxItems = 2
    Here = Here
    There = There
    None = None
INVARIANTS
    TypeOK
    SteadyIsDelivered
PROPERTY
    EventuallyDelivered
