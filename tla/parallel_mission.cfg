SPECIFICATION FairSpec
CONSTANTS
  None = None
  Story = {a, b}
  Planned = {{a, b}, {b}}
  MaxGeneration = 1
  MaxGroups = 2
  MaxOutcomes = 1
  MaxHead = 1
  MaxNotes = 1
  MaxFaults = 1
INVARIANTS TestedIsIntegrated RejectionIsAuthorised
PROPERTIES ImplementsGeneration NothingOverwritten PendingIsResolved
CHECK_DEADLOCK FALSE
