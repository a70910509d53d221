SPECIFICATION FairSpec
CONSTANTS
  Turns = {t1}
  Replicas = {p1, p2}
  Readers = {k1}
  Stops = {s1}
  NoTurn = NoTurn
  NoReplica = NoReplica
  MaxDeltas = 0
  MaxEvents = 2
  Faults = {"busy", "pod"}
INVARIANTS CompletedIsSaved
PROPERTIES TailEnds StopIsHeeded
CHECK_DEADLOCK FALSE
