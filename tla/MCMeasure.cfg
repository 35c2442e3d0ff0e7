\* Two meters, one of which may move once, one fault of any kind.
SPECIFICATION FairSpec
CONSTANTS
  Devices = {1, 2}
  Places = {p1, p2, p3}
  p1 = p1
  p2 = p2
  p3 = p3
  gateway = gateway
  other = other
  Address <- Gateway
  StreamCapacity = 1
  MaxMoves = 1
  MaxFaults = 1
  None = None
INVARIANTS TypeOK OneStream
PROPERTIES EveryRowJoined StreamsKept StillMeasured
