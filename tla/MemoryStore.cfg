SPECIFICATION Spec
CONSTANTS
  t1 = t1
  t2 = t2
  k1 = k1
  k2 = k2
  c1 = c1
  c2 = c2
  None = None
  Ids = {t1, t2}
  Keys = {k1, k2}
  Clients = {c1, c2}
  Targets <- MCRunTargets
  AttemptNos = {1}
  MaxVersion = 4
  MaxEvents = 1
SYMMETRY MCSymmetry
INVARIANTS EventsReplay RecoveryBlocksStale ApprovalIsHeeded
PROPERTIES PortSpec
CHECK_DEADLOCK FALSE
