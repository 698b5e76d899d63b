SPECIFICATION Spec
CONSTANTS
  t1 = t1
  t2 = t2
  k1 = k1
  c1 = c1
  c2 = c2
  None = None
  Recoverer = Recoverer
  Ids = {t1, t2}
  Keys = {k1}
  Clients = {c1}
  Targets <- MCTargets
  AttemptNos = {1, 2}
  Lossy = FALSE
  MaxVersion = 3
  MaxEvents = 2
  MaxFaults = 1
  MaxCrashes = 2
SYMMETRY MCSymmetry
INVARIANTS TypeOK RecoveryBlocksStale DocumentsAreUnique
