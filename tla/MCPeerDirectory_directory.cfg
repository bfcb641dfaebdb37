\* The peer moves between two workers, one of which may fail; both look it up.
SPECIFICATION FairSpec
CONSTANTS
    Workers = {w1, w2}
    None = None
    MaxPipe = 2
    Fragile = {w2}
    Readers = {w1, w2}
CHECK_DEADLOCK FALSE
INVARIANTS
    LastWriteTells
    DirectoryAgrees
    NoFalseEntry
PROPERTIES
    CachesConverge
    GoneIsForgotten
