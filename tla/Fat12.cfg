SPECIFICATION FatSpec
CONSTANTS
  BaseLength = 2
  ExtLength = 1
  SectorSize = 8
  RootSectors = 3
  EntriesPerSector = 2
  DataOffset = 7
  PathnameSize = 16
  NumberOfFats = 2
  SectorsPerFat = 2
  MaxCluster <- MCMaxCluster
  Root <- MCRoot
  Sub <- MCSub
  Fats <- MCFats
  Paths <- MCPaths
  Capital <- MCCapital
INVARIANTS RightFile ReadsOnlyTheChain
PROPERTY ReadsEnd
CHECK_DEADLOCK FALSE
