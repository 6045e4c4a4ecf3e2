SPECIFICATION Spec
CONSTANTS
  t1 = t1
  t2 = t2
  t3 = t3
  t4 = t4
  x = x
  y = y
  k = k
  p = p
  j1 = j1
  j2 = j2
  f = f
  e = e
  l = l
  q = q
  Tasks = {t1, t2}
  Contents = {x, y}
  Candidates = {k}
  Profiles = {p, q}
  Jobs = {j1, j2}
  Files = {f}
  Owner <- MCOwner
  Sizes = {0, 1, 2}
  Required = 2
  NoTask = NoTask
  NoBaseline = NoBaseline
  MaxGeneration = 0
  MaxManual = 1
  MaxFaults = 1
SYMMETRY Symmetry
INVARIANTS
  TypeOK
  ClaimPrecedesSubmission
  CompletionHasEvidence
PROPERTIES
  BaselineIsPermanent
