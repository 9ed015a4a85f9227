SPECIFICATION FairSpec
CONSTANTS
  t = t
  u1 = u1
  u2 = u2
  s = s
  j = j
  k = k
  w1 = w1
  w2 = w2
  r1 = r1
  r2 = r2
  r3 = r3
  Calls = {w1, w2, r1}
  Turns = {t, s}
  Children = {k}
  ParentOf <- MCParentOf
  AgentOf <- MCAgentOf
  KeyOf <- MCKeyOf
  FileCalls = {w1, w2}
  After <- MCAfter
  Reviewed = {"write1"}
  BranchOf <- MCBranchOf
  Fresh = {}
  Undos = {u1, u2}
  Original = "zero"
  Foreign = {"other"}
  MaxEdits = 1
  MaxCrashes = 1
  MaxFaults = 1
  None = None
INVARIANT TypeOK
INVARIANT EndedScopesAreSettled
INVARIANT ChangesAreUndoneOnce
PROPERTY ImplementsEffects
PROPERTY ForeignEditsAreKept
PROPERTY DispatchedCallsSettle
CHECK_DEADLOCK FALSE
