SPECIFICATION PaneSpec
CONSTANTS
    w1 = w1
    p1 = p1
    f1 = f1
    f2 = f2
    c1 = c1
    c2 = c2
    Worlds <- OneWorld
    Panes <- OnePane
    Fingerprints <- TwoFingerprints
    Connections <- TwoConnections
    GENERATIONS = 8
    MaxFlips = 4
    MaxNow = 2
    ClockSteps = TRUE
    RelayRestarts = TRUE
SYMMETRY PaneSymmetry
INVARIANT ShownFromThisRun
INVARIANT StoredInItsRun
