\* Every list of up to three spans of addresses from 0 to 4.
SPECIFICATION RSpec
CONSTANTS
  MaxAddress = 4
  Threshold = 2
  Inputs <- UpToThree
  MaxTime = 2
INVARIANTS ReadingsTypeOK Partition RegistersWhole PanicsOnlyOnOverlap
CHECK_DEADLOCK FALSE
