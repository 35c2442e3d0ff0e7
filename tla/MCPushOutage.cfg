\* One outage while two rows wait.
SPECIFICATION Spec
CONSTANTS
  MessageLimit = 2
  MaxId = 3
  MaxInsert = 2
  MaxFaults = 1
  Poison = {}
INVARIANTS OutageLosesNothing
