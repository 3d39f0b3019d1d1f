SPECIFICATION Spec
CONSTANTS
  SeqNrs = 4
  NFake = 2
  Streams <- AnyStreams
INVARIANT AcceptedIsComplete
CHECK_DEADLOCK FALSE
