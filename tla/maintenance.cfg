SPECIFICATION MaintenanceSpec
CONSTANTS
  Absent = Absent  P2 = P2
  Operator = {alice, bob}
  Head = {h1, h2}
  Route = {P2}
  Process = {p, q}
  Readings <- FewSources
  Considered = {"COMPLETE_IN_FLIGHT"}
  MaxRevision = 3
PROPERTIES ExtendsRegister WorkWasPermitted
SYMMETRY SameProcesses
CHECK_DEADLOCK FALSE
