\* A meter that moves between two places, goes and returns, one fault of any
\* kind: a lost answer, a failed query, a restart of the service.
SPECIFICATION FairSpec
CONSTANTS
  Ids = {m1}
  Addresses = {a1, a2}
  LastSlave = 2
  Places <- AloneOrSlave
  Kinds = {"meter"}
  KindOf <- OneKind
  InactiveTimeout = 1
  MaxMoves = 2
  MaxFaults = 1
  None = None
  a1 = a1
  a2 = a2
INVARIANTS TypeOK HealthFollowsStatus OnlyKnownBound
PROPERTIES MeterFound GoneInactive
