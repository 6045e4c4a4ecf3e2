SPECIFICATION FairSpec
CONSTANTS
  p1 = p1
  p2 = p2
  c1 = c1
  c2 = c2
  w1 = w1
  Profiles = {p1, p2}
  Callers = {c1, c2}
  Workers = {w1}
  Slots = 1
  MaxRuns = 2
  MaxServices = 2
  MaxCrashes = 1
  MaxFaults = 1
INVARIANTS
  TypeOK
  LimitsAreAccounted
  ScheduledRunsSurviveReload
  RunningRunsAreLive
  OverlapsAreCutShort
  JobsUseCurrentServices
PROPERTIES
  RunsEnd
