SPECIFICATION Spec
CONSTANTS
  SeqNrs = 1024
  NFake = 7
  FrameTime = 4
  AudioTime = 6
  MaxRanges = 1
  Recordings <- SilentRecordings
INVARIANTS StopsAtStop
CHECK_DEADLOCK FALSE
