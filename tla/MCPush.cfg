\* Pages of up to three of four measurements, one of them rejected every time,
\* and two faults of any kind.
SPECIFICATION FairSpec
CONSTANTS
  MessageLimit = 3
  MaxId = 4
  MaxInsert = 3
  MaxFaults = 2
  Poison = {2}
INVARIANTS TypeOK NoSilentLoss
PROPERTIES ImplementsOutbox PositionAdvances EveryGoodRowSettled
