\* Two devices, two addresses, two operations at a time, two moves or stops.
SPECIFICATION FairSpec
CONSTANTS
  Ids = {d1, d2}
  Addresses = {a1, a2}
  Callers = {c1, c2}
  MaxWorkers = 4
  MaxChanges = 2
  None = None
INVARIANTS TypeOK NoOrphanWorkers
PROPERTIES ImplementsPool AllServedInTheEnd
