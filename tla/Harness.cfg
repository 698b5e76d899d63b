CONSTANTS
  None = None
  Workers <- MCWorkers
  Roles <- MCRoles
  Specs <- MCSpecs
  Extras = {"extra"}
  Caps <- MCCaps
  Globs <- MCGlobs
  CAP_MAP <- MCCapMap
  DEFAULT_LIMITS <- MCLimits
  Requests <- MCRequests
  Setups <- MCSetups
  HISTORY_KEEP = 2
  Durations <- MCDurations
  MaxStarts = 4
  MaxSessions = 2
SPECIFICATION HarnessSpec
INVARIANTS
  HarnessTypeOK
  CallsAreGranted
  AuditIsComplete
