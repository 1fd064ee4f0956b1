SPECIFICATION Spec
CONSTANTS
    Count = 3
    WithId <- MCWithId
    a1 = a1
    a2 = a2
    Adapters <- MCAdapters
    NoAdapter = NoAdapter
    NoSnapshot = NoSnapshot
    Backlog = 2
    SeenMax = 2
    MaxFaults = 2
INVARIANT StuckMeansDied
SYMMETRY Symmetry
