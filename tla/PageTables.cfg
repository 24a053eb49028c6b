SPECIFICATION PagingSpec
CONSTANTS
  PerTable = 10
  Tables = 9
  FrameCount = 23
  WordBits = 8
  KernelAt = 2
  KernelTable = 3
  KHEAP = 40
  Devices <- MCDevices
  FreeSets <- MCFreeSets
  Requests = {1, 3}
INVARIANTS MapsExact 
CHECK_DEADLOCK FALSE
