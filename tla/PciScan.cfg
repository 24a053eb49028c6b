SPECIFICATION MCSpec
CONSTANTS
  Buses = {0, 1, 2}
  Slots = {0, 1}
  Functions = {0, 1}
  MaxFunctions = 3
  MaxDepth = 4
INVARIANTS ScanFinds
PROPERTY ScanEnds
CHECK_DEADLOCK FALSE
