SPECIFICATION FairSpec
CONSTANTS
  None = None
  a = a
  b = b
  Ids = {a, b}
  Generating = {b}
  MaxLife = 1
  MaxRunning = 2
  MaxTokens = 3
  Interval = 2
  FatalAfter = 2
  Faults = {"withdraw", "raise", "recovery", "shared", "pause"}
INVARIANT NoRequestStranded
PROPERTY EveryClientEnds
PROPERTY ImplementsTokenStream
CHECK_DEADLOCK FALSE
