\* A write of two records to a meter that answers or stays silent, a stream of two
\* spans of a good meter and a stream of one that is always late; refused
\* connections, a terminate at any time.
SPECIFICATION Spec
CONSTANTS
  read = read
  write = write
  stream = stream
  badStream = badStream
  good = good
  lossy = lossy
  bad = bad
  Requests <- WriteAndStreams
  Kind <- MixedKind
  Size <- TwoParts
  Target <- Meters
  Impatient = {}
  Outcomes <- LossyOrLate
  MayRefuse = TRUE
  PartialRetries = 0
  MaxRetries = 1
  MaxGeneration = 2
  StreamCapacity = 1
INVARIANTS TypeOK GenerationSpread OneGeneration NobodyForgotten
PROPERTIES ImplementsServer
CHECK_DEADLOCK FALSE
