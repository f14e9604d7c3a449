SPECIFICATION Spec
CONSTANTS
    s1 = s1
    s2 = s2
    s3 = s3
    s4 = s4
    unknown = unknown
    Story = {s1, s2, s3, s4}
    Named = {s1, s2, s3, s4, unknown}
    Status = {"CERTIFIED", "PLANNED", "IN_PROGRESS"}
    Segment = {"a", "b", "x", "y"}
    Files <- MCFiles
    Scope <- MCScope
SYMMETRY Swap
INVARIANTS
    EveryPlannableIsPlanned
    GroupsShareNoFile
CHECK_DEADLOCK FALSE
