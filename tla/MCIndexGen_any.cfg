SPECIFICATION Spec
CONSTANTS
  SeqNrs = 10
  NFake = 2
  Streams <- AllStreams
INVARIANTS
  TypeOK
  FlushedIsFinal
  RanksPermute
  LoadsBack
  ReverseIfShort
  DisplayOrder
  StartsAndEndsDecodable
CHECK_DEADLOCK FALSE
