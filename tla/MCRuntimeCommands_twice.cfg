CONSTANTS
  Items = {}
  NoKey = NoKey
  MaxEpoch = 1
  MaxCommands = 3
  MaxCalls = 1
  Redelivers = TRUE
  Loses = FALSE
SPECIFICATION Spec
PROPERTIES
  AckedStartIsOver
CHECK_DEADLOCK FALSE
