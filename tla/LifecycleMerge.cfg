SPECIFICATION Spec
CONSTANTS
  None = None
  a = a
  b = b
  Ids = {a}
  Generating = {}
  MaxLife = 1
  MaxRunning = 1
  MaxTokens = 2
  Interval = 1
  FatalAfter = 2
  Faults = {"cancel"}
PROPERTY TerminalSurvivesAggregation
CHECK_DEADLOCK FALSE
