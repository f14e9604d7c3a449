SPECIFICATION Spec
CONSTANTS
  s1 = s1  s2 = s2
  Story = {s1, s2}
  Order <- FirstThenSecond
  None = None
  MaxFaults = 2
  MaxOutside = 2
PROPERTIES GatedIsSettled
INVARIANTS PromotedIsGated OneImplementation RegistryIsBacked
CHECK_DEADLOCK FALSE
