\* Three rows, two inserts at a time, failed requests, reports, a stepped clock.
SPECIFICATION FairSpec
CONSTANTS
  MessageLimit = 2
  MaxId = 3
  MaxReports = 1
  MaxFaults = 2
  MaxOpen = 2
INVARIANTS TypeOK OnlyPassedOver
PROPERTIES PositionAdvances EveryRowSettled
