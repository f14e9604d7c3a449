SPECIFICATION Spec
CONSTANTS
  c1 = c1  c2 = c2
  Caller = {c1, c2}
  None = None
  MaxGen = 1
  MaxHead = 1
INVARIANTS CertifiedOnOneChain
PROPERTIES DivergenceStops Settles
CHECK_DEADLOCK FALSE
