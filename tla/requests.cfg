SPECIFICATION Spec
CONSTANTS
  t1 = t1  t2 = t2  a = a  b = b
  Profiles = {profile}  Watchlists = {w}  NoTime = none
  n1 = n1  n2 = n2  b1 = b1  b2 = b2
  main = main  submitter = submitter  poller = poller  user = user
SYMMETRY Symmetry
INVARIANTS TokensAreUsedInTurn ChangesEndSessions PlanFollowsTable
  ForcedAreLinked OrdinaryComesFirst RowFollowsLog ManualCompletionIsMarked StandstillIsLoggedOnce
CHECK_DEADLOCK FALSE
