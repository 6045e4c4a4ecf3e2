SPECIFICATION Spec
CONSTANTS
  a = a  c1 = c1  c2 = c2  main = main
  t1 = t1  t2 = t2  r1 = r1  r2 = r2  s1 = s1  k1 = k1
  s = s  u = u  server = server
INVARIANTS StoredIsValid
PROPERTIES SettingsTakeEffect CallsReturn PendingAreAsked ApplicationStarts
  MigrationLosesNothing UpgradesAtOnce
CHECK_DEADLOCK FALSE
