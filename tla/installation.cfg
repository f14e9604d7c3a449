SPECIFICATION Spec
CONSTANTS
    c1 = c1
    c2 = c2
    Callers = {c1, c2}
    Project <- MCProject
    Owners = {c1}
    Tolerant = {c2}
    MaxFaults = 1
    MaxEdits = 1
INVARIANTS
    OneProject
PROPERTIES
    NothingIsLost
    AdoptionSettles
    UpgradeSettles
CHECK_DEADLOCK FALSE
