CONSTANTS
  Turns = {t1, t2}
  NoTurn = NoTurn
  Routes = {"agent", "direct"}
  MaxFrames = 0
  MaxStops = 0
  MaxDeletes = 1
  MaxCrashes = 0
  MaxTimeouts = 0
  Faults = {"busy", "split", "escape"}
SPECIFICATION FairSpec
INVARIANTS
  BuffersAreClean
PROPERTIES
  
  ChatFreesUp
CHECK_DEADLOCK FALSE
