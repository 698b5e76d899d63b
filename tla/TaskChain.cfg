SPECIFICATION Spec
CONSTANTS
  c1 = c1
  c2 = c2
  w1 = w1
  tester = tester
  None = None
  Callers = {c1, c2}
  Workers = {w1, tester}
  Tester = tester
  Plans <- MCPlans
  LoopStatuses = {"done", "needs_approval"}
  MaxRounds = 1
  MaxSteps = 2
  MaxCalls = 2
INVARIANTS StepsOfOneChain OkIsReverified
PROPERTIES VerifiedByEvidence EveryCallEnds
CHECK_DEADLOCK FALSE
