SPECIFICATION FairSpec
CONSTANTS
  Streams <- TwoStreams
  BufSize <- Buffers
  Payload = 5
  Slack = 1
  WholeSlack <- Whole
  PackTime = 1
  PtsOffset = 4
  SafetyMargin = 6
  Second = 12
  MaxSpan = 7
  FillerStep = 3
  Later = 1
  FlushEvery = 3
  Sizes <- AuSizes
  Interval <- AuInterval
  KeyEvery = 3
  Lag = 3
  MaxTime = 24
  MaxFailures = 1
INVARIANTS
  TypeOK
  NothingLost
  RateKept
  InTime
  BufferHolds
PROPERTIES
  FlushEnds
CHECK_DEADLOCK FALSE
