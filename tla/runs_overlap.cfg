SPECIFICATION Spec
CONSTANTS
  p1 = p1
  p2 = p2
  c1 = c1
  c2 = c2
  w1 = w1
  Profiles = {p1}
  Callers = {c1, c2}
  Workers = {}
  Slots = 1
  MaxRuns = 2
  MaxServices = 2
  MaxCrashes = 0
  MaxFaults = 0
INVARIANTS
  OneRunPerProfile
