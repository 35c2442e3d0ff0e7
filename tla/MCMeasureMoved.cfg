\* Two meters, one of which is moved once.
SPECIFICATION FairSpec
CONSTANTS
  Devices = {1, 2}
  Places = {p1, p2, p3}
  p1 = p1
  p2 = p2
  p3 = p3
  gateway = gateway
  other = other
  Address <- Gateway
  StreamCapacity = 1
  MaxMoves = 1
  MaxFaults = 0
  None = None
PROPERTIES SomeMeasured
