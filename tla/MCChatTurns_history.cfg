CONSTANTS
  Turns = {t1, t2}
  NoTurn = NoTurn
  Routes = {"agent", "direct"}
  MaxFrames = 1
  MaxStops = 1
  MaxDeletes = 0
  MaxCrashes = 1
  MaxTimeouts = 1
  Faults = {"busy", "escape"}
SYMMETRY Symmetry
SPECIFICATION Spec
INVARIANTS
  StreamMatchesHistory
  
  
  ReaderKeepsToItsTurn
CHECK_DEADLOCK FALSE
