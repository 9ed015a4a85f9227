SPECIFICATION FairSpec
CONSTANTS
  None = None
  p = p
  q = q
  s = s
  Requests = {p, q, s}
  Faults = {"start", "hook", "stop", "pause", "resume"}
  MaxFaults = 2
INVARIANT TypeOK
INVARIANT UsersAreServed
INVARIANT OneTransition
INVARIANT StateIsTruthful
PROPERTY EveryRequestIsAnswered
PROPERTY IdleIsUnloaded
CHECK_DEADLOCK FALSE
