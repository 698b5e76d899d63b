SPECIFICATION Spec
CONSTANTS
  t1 = t1
  t2 = t2
  k1 = k1
  c1 = c1
  c2 = c2
  None = None
  Recoverer = Recoverer
  Ids = {t1}
  Keys = {k1}
  Clients = {c1, c2}
  Targets <- MCFewTargets
  AttemptNos = {1}
  Lossy = TRUE
  MaxVersion = 2
  MaxEvents = 0
  MaxFaults = 2
  MaxCrashes = 1
SYMMETRY MCSymmetry
INVARIANTS SeenIsCached NoLostUpdate HistoryNeverForks
PROPERTIES PortSpec
