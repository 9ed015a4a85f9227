SPECIFICATION Spec
CONSTANTS
  t = t
  u1 = u1
  u2 = u2
  s = s
  j = j
  k = k
  w1 = w1
  w2 = w2
  r1 = r1
  r2 = r2
  r3 = r3
  Calls = {r2, r3}
  Turns = {t}
  Children = {j, k}
  ParentOf <- MCParentOf
  AgentOf <- MCAgentOf
  KeyOf <- MCKeyOf
  FileCalls = {}
  After <- MCAfter
  Reviewed = {"write1"}
  BranchOf <- MCBranchOf
  Fresh = {}
  Undos = {u1, u2}
  Original = "zero"
  Foreign = {"other"}
  MaxEdits = 0
  MaxCrashes = 0
  MaxFaults = 0
  None = None
PROPERTY UnknownIsAskedAgain
CHECK_DEADLOCK FALSE
