SPECIFICATION Spec
CONSTANTS
  RxSize = 5
  Sizes <- MCSizes
  MaxJunk = 2
  OtherBits <- MCBits
  PacketLimit = 3
  RaiseLimit = 2
INVARIANTS RingRead OnlyLateLeft
PROPERTY InterruptsEnd
CHECK_DEADLOCK FALSE
