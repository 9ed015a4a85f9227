SPECIFICATION Spec
CONSTANTS
  t1 = t1
  t2 = t2
  h1 = h1
  h2 = h2
  main = main
  p = p
  q = q
  Turns = {t1, t2}
  Helpers = {h1, h2}
  Readers = {}
  Branches = {main}
  BranchOf <- MCBranchOf
  ParentOf <- MCParentOf
  Followed <- MCFollowed
  MaxTexts = 1
  MaxRev = 2
  MaxCrashes = 1
  MaxFaults = 1
INVARIANT TurnsHaveOwners
INVARIANT RunningTurnOwnsBranch
INVARIANT LogsEndOnce
CHECK_DEADLOCK FALSE
