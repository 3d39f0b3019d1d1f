SPECIFICATION Spec
CONSTANTS
  SeqNrs = 1024
  NFake = 7
  FrameTime = 4
  AudioTime = 6
  MaxRanges = 3
  Recordings <- AllRecordings
INVARIANTS TypeOK EachPictureOnce PictureTimes ReferencesCopied InSync EndTogether
CHECK_DEADLOCK FALSE
