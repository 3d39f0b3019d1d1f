SPECIFICATION Spec
CONSTANTS
  Half = 3
  FrameLen = 2
  FrameTime = 2
  MinHeader = 2
  PacketSize = 2
  Search = 3
  Window = 6
  MinBytes = 1
  Files <- MCFiles
  Times <- MCTimes
INVARIANTS
  TypeOK
  FramesTimed
PROPERTIES
  Delivered
  SeekFinds
  StartsNearest
  Returns
CHECK_DEADLOCK FALSE
