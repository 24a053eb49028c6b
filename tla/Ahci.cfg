SPECIFICATION Spec
CONSTANTS
  Ports = 3
  Headers = 15
  SlotFields = {0, 31}
INVARIANTS FetchesTheCommand IdentityRead
PROPERTIES SetWhileStopped ProbeEnds
CHECK_DEADLOCK FALSE
