SPECIFICATION ShellSpec
CONSTANTS
  Keys <- EditKeys
  Wrap = 4
  KeyLimit = 4
  Words = 3
INVARIANTS ReturnsTheLine KeysInOrder OnlyTypedKeys
PROPERTIES EveryKeyDelivered ParsesWhatWasTyped ParsesTheOldCommand
CHECK_DEADLOCK FALSE
