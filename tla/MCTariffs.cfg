\* A poll at startup and two ticks; one meter answers, one fails in any way.
SPECIFICATION FairTSpec
CONSTANTS
  Names = {"poll", "daily"}
  Startup <- Executed
  MaxTasks = 2
  MaxVersion = 1
  Devices = {good, other}
  Good = {good}
  Lengths <- OneRecord
  good = good
  other = other
INVARIANTS TariffsTypeOK ConfigurationFirst GoodWritten
PROPERTIES NeverOlder TicksServed
CHECK_DEADLOCK FALSE
