SPECIFICATION Spec
CONSTANTS
  Width = 2
  Height = 3
  Tab = 2
  ByteSize = 4
  Blank = " "
  Printed = {"m", "TAB", "CR", "LF", "NUL"}
  Echoed = {"k", "BS", "LF", "NUL"}
INVARIANTS CursorKept
PROPERTY ShowsThePaper
