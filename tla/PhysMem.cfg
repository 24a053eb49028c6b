SPECIFICATION Spec
CONSTANTS
  BlockSize = 4
  ByteBits = 4
  FillBits = 2
  WordBits = 8
  MemBytes = 53
  Regions <- MCRegions
  Top = 17
  Kernel <- MCKernel
  Low <- MCLow
  Sizes = {1}
INVARIANTS SingleOwner ReservedKept FramesExist RefusedOnlyWhenFull
