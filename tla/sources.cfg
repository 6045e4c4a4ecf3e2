SPECIFICATION Spec
CONSTANTS
  t1 = t1  t2 = t2  r1 = r1  r2 = r2  s1 = s1  k1 = k1  s = s  u = u  TTL = 2  TopN = 2
  Destination <- DestinationPath  Root <- RootPath  MaxEntries = 2
SYMMETRY Symmetry
INVARIANTS RunSeesOneAnswer EndedRunsAreForgotten AcceptedIsProven
  BestIsTaken DecidedAreLeft SnapshotsAreSound EnsureIsHonest
CHECK_DEADLOCK FALSE
