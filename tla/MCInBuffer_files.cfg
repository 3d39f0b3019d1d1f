SPECIFICATION Spec
CONSTANTS
  Size = 5
  MmapSize = 8
  PageSize = 2
  FileLens = {0, 3, 6}
  PipeLens = {0, 9}
  Endless = 100
  MaxFiles = 2
  Amounts <- MCAmounts
  Positions <- MCPositions
INVARIANTS TypeOK NothingLost WindowFaithful Served ReadsInFile
