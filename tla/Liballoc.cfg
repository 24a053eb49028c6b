SPECIFICATION Spec
CONSTANTS
  HDR = 32
  MINEXP = 8
  MAXEXP = 14
  MAXCOMPLETE = 1
  PageSize = 4096
  PageCount = 1
  KHEAP = 4096
  Pages = 3
  Requests <- MCRequests
INVARIANTS TagsSound ListsSound NoFreeNeighbours
PROPERTY KeepsPromise
CHECK_DEADLOCK FALSE
