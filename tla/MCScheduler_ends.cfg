CONSTANTS
  Replicas = {p1}
  MaxRuns = 2
  MaxSlot = 1
  Once = TRUE
  Desktop = TRUE
  Deletes = TRUE
  Edits = FALSE
SPECIFICATION FairSpec
PROPERTIES
  RunsEnd
  SlotsSettle
CHECK_DEADLOCK FALSE
