CONSTANTS
  i1 = i1
  i2 = i2
  i3 = i3
  c1 = c1
  c2 = c2
  Items = {i1, i2}
  Immediate = {i2}
  Callers = {c1}
  Ops = {"submit", "steer", "queue", "remove", "promote", "next", "cancel", "answer", "config", "mode", "delete"}
  Asks = {"approval", "question"}
  Faults = {"prepare", "engine"}
  MaxCrashes = 1
  Prep = Prep
  Nobody = Nobody
SPECIFICATION FairSpec
INVARIANTS
  BusyHasOwner
  DeletedLeavesNothing
PROPERTIES
  CancelEndsTurn
  
CHECK_DEADLOCK FALSE
