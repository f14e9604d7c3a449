SPECIFICATION Spec
CONSTANTS
    None = None
    Heads = {h1, h2}
    MaxRunning = 1
    MaxResource = 4
    MaxFaults = 1
    MaxEvents = 1
    MaxFollowed = 1
    MaxGenerations = 2
INVARIANTS
    HealthyRestsOnReadStores
    QuietMeansSound
PROPERTIES
    ClosedOnlyWhenClear
CHECK_DEADLOCK FALSE
SYMMETRY Commits
