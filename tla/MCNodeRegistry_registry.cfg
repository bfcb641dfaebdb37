\* Two Nodes for one address: lookups overlap, heartbeats are missed, late or in time.
SPECIFICATION FairSpec
CONSTANTS
    Nodes = {n1, n2}
    None = None
    MaxRetrys = 2
    MaxSteps = 1
    MaxPending = 2
INVARIANTS
    TypeOK
    OrphansNeedOverlap
    DestroyedIsQuiet
    RaisedIsWatched
PROPERTIES
    DeadIsForgotten
    ReturnsAlive
