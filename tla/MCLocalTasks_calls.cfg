CONSTANTS
  i1 = i1
  i2 = i2
  i3 = i3
  c1 = c1
  c2 = c2
  Items = {i1, i2, i3}
  Immediate = {}
  Callers = {c1, c2}
  Ops = {"submit", "steer", "queue", "remove", "promote", "next", "cancel", "answer", "config", "mode", "delete"}
  Asks = {"question"}
  Faults = {"engine"}
  MaxCrashes = 0
  Prep = Prep
  Nobody = Nobody
SYMMETRY MCSymmetry
SPECIFICATION Spec
INVARIANTS
  OneTurn
  InstructionOnce
  
  
CHECK_DEADLOCK FALSE
