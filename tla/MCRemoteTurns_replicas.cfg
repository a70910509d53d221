SPECIFICATION Spec
CONSTANTS
  Turns = {t1, t2}
  Replicas = {p1, p2}
  Readers = {}
  Stops = {s1}
  NoTurn = NoTurn
  NoReplica = NoReplica
  MaxDeltas = 1
  MaxEvents = 1
  Faults = {"pod"}
SYMMETRY Symmetry
INVARIANTS RepliesAreOwn CancelledWasAsked RunningIsFound
CHECK_DEADLOCK FALSE
