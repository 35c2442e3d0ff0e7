\* A read and a stream of a good meter next to a stream of a dead one.
SPECIFICATION FairSpec
CONSTANTS
  read = read
  write = write
  stream = stream
  badStream = badStream
  good = good
  lossy = lossy
  bad = bad
  Requests <- ReadAndStreams
  Kind <- MixedKind
  Size <- OnePart
  Target <- Meters
  Impatient = {badStream}
  Outcomes <- GoodOrDead
  MayRefuse = FALSE
  PartialRetries = 0
  MaxRetries = 1
  MaxGeneration = 2
  StreamCapacity = 1
PROPERTIES  GoodRequestsAnswered CancelledDropped
CHECK_DEADLOCK FALSE
