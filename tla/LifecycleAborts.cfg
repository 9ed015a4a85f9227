SPECIFICATION Spec
CONSTANTS
  None = None
  a = a
  b = b
  Ids = {a, b}
  Generating = {b}
  MaxLife = 1
  MaxRunning = 1
  MaxTokens = 1
  Interval = 1
  FatalAfter = 2
  Faults = {"withdraw", "disconnect", "guard", "own", "shared", "cancel", "refuse", "insertCorrupt", "decodeCorrupt", "repeat"}
INVARIANT TypeOK
INVARIANT NoZombie
INVARIANT LeasesHaveOwners
INVARIANT GhostsAreReaped
INVARIANT CountedOnce
CHECK_DEADLOCK FALSE
