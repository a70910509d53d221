SPECIFICATION FairSpec
CONSTANTS
  r1 = r1
  r2 = r2
  t1 = t1
  here = here
  c1 = c1
  Local = here
  Home <- MCHome
  Runs = {r1, r2}
  Tasks = {t1}
  Computers = {here, c1}
  TaskOf <- MCOneTask
  Portable = {t1}
  Kinds = {"workspace", "error"}
  MaxConcurrentRuns = 1
  MaxEpoch = 2
  MaxSeq = 2
  MaxLeases = 2
  MaxRequests = 1
INVARIANTS TypeOK OneHolderPerEpoch LogInOrder AckedIsApplied WorkspaceFollowsRun
PROPERTIES NoLateEvent FinishedStaysClosed
  ImplementsOwnership LapsedLeaseIsTaken
CHECK_DEADLOCK FALSE
