SPECIFICATION FairSpec
CONSTANTS
  t1 = t1
  t2 = t2
  h1 = h1
  h2 = h2
  main = main
  p = p
  q = q
  Turns = {t1}
  Helpers = {h1}
  Readers = {p, q}
  Branches = {main}
  BranchOf <- MCBranchOf
  ParentOf <- MCParentOf
  Followed <- MCFollowed
  MaxTexts = 1
  MaxRev = 1
  MaxCrashes = 1
  MaxFaults = 1
INVARIANT TypeOK
INVARIANT ReadersSeeTheEnd
PROPERTY CancellationsEnd
PROPERTY ReadersEnd
CHECK_DEADLOCK FALSE
