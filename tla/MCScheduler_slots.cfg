CONSTANTS
  Replicas = {p1, p2}
  MaxRuns = 2
  MaxSlot = 1
  Once = FALSE
  Desktop = FALSE
  Deletes = FALSE
  Edits = TRUE
SPECIFICATION Spec
SYMMETRY Symmetry
INVARIANTS
  TypeOK
  
CHECK_DEADLOCK FALSE
