CONSTANTS
  Items = {}
  NoKey = NoKey
  MaxEpoch = 1
  MaxCommands = 3
  MaxCalls = 1
  Redelivers = TRUE
  Loses = TRUE
SPECIFICATION FairSpec
PROPERTIES
  StartIsServed
CHECK_DEADLOCK FALSE
