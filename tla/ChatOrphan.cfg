SPECIFICATION Spec
CONSTANTS
  t1 = t1
  t2 = t2
  h1 = h1
  h2 = h2
  main = main
  p = p
  q = q
  Turns = {t1}
  Helpers = {}
  Readers = {}
  Branches = {main}
  BranchOf <- MCBranchOf
  ParentOf <- MCParentOf
  Followed <- MCFollowed
  MaxTexts = 0
  MaxRev = 1
  MaxCrashes = 0
  MaxFaults = 1
INVARIANT NoTurnIsOrphaned
CHECK_DEADLOCK FALSE
