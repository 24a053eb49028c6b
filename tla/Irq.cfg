SPECIFICATION Spec
CONSTANTS
  TickWidth = 5
  WaitTicks = 2
INVARIANT TakenAndEnded
PROPERTIES NobodyLeftWaiting WaitsLongEnough
CHECK_DEADLOCK FALSE
