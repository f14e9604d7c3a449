SPECIFICATION FairObservation
CONSTANTS
    r1 = r1
    r2 = r2
    x1 = x1
    e1 = e1
    Runner = {r1, r2}
    Responder = {r1, r2}
    Execution = {x1}
    Evidence = {e1}
    NoEvent = NoEvent
    SegmentSize = 2
    MaxSegments = 2
    JournalFaults = 1
    MaxRevisions = 2
INVARIANT EachEventOnce
INVARIANT DecisionIsServed
INVARIANT ExecutionsCountedOnce
PROPERTY FactsAreProjected
CHECK_DEADLOCK FALSE
