\* What the commented check of the hub says of origins.
SPECIFICATION Spec
CONSTANTS
    Signals <- MCSignals
    Pieces <- MCPieces
    VersionsEndingIn2 = {"2", "12"}
    Lookalikes = {"0:0:0:0"}
    CapitalNames = {"U", "P", "F", "C", "S", "M", "Sxyz"}
INVARIANTS
    OnlyMozillaOriginsChange
CHECK_DEADLOCK FALSE
