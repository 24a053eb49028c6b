SPECIFICATION Spec
CONSTANTS
  Keys <- LockingKeys
  Wrap = 4
  KeyLimit = 1
INVARIANT LocksFollowPresses
PROPERTY BufferedAsHeld
