\* Two rows inserted one after the other, a page of one row, nothing fails.
SPECIFICATION Spec
CONSTANTS
  MessageLimit = 1
  MaxId = 2
  MaxReports = 0
  MaxFaults = 0
  MaxOpen = 1
CHECK_DEADLOCK FALSE
INVARIANTS NothingPassedOver
