\* Two workers, three faults.
SPECIFICATION FairSpec
CONSTANTS
    Workers = {w1, w2}
    MaxMissed = 5
    MaxFaults = 3
INVARIANTS
    WorkersConserved
PROPERTIES
    ResponsiveIsSpared
    AllUpAgain
