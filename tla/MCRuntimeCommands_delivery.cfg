CONSTANTS
  Items = {i1}
  NoKey = NoKey
  MaxEpoch = 2
  MaxCommands = 3
  MaxCalls = 1
  Redelivers = TRUE
  Loses = FALSE
SPECIFICATION Spec
INVARIANTS
  TurnIsVisible
  OneStartPerInstruction
  TurnsOfTheirEpoch
  AckedStartRan
PROPERTIES
  NoTurnAfterRelease
CHECK_DEADLOCK FALSE
