SPECIFICATION AutoSpec
CONSTANTS
  t1 = t1
  t2 = t2
  t3 = t3
  x = x
  y = y
  z = z
  a = a
  b = b
  p = p
  q = q
  j1 = j1
  j2 = j2
  j3 = j3
  i1 = i1
  i2 = i2
  i3 = i3
  Tasks = {t1, t2, t3}
  Contents = {x, y, z}
  Candidates = {a, b}
  Profiles = {p}
  Jobs = {j1, j2, j3}
  Runners = {j1, j2}
  Items = {i1, i2}
  Ranked <- MCRankedThree
  Files = {}
  Owner <- MCOwner
  Sizes = {}
  Required = 2
  NoTask = NoTask
  NoBaseline = NoBaseline
  MaxGeneration = 1
  MaxManual = 0
  MaxFaults = 1
SYMMETRY Symmetry
INVARIANTS
  SwitchNeedsUser
  SubmittedItemsAreHeld
CONSTRAINT OneOrShared
