\* Descriptions and candidates to compact peers and to others.
SPECIFICATION Spec
CONSTANTS
    Signals <- MCSignals
    Pieces <- MCPieces
    VersionsEndingIn2 = {"2", "12"}
    Lookalikes = {"0:0:0:0"}
    CapitalNames = {"U", "P", "F", "C", "S", "M", "Sxyz"}
INVARIANTS
    RegularArrivesIntact
    EssentialsArrive
    CompactAgainIsSame
CHECK_DEADLOCK FALSE
