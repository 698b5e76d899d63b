SPECIFICATION LoopSpec
CONSTANTS
  Nothing = Nothing
  MaxSteps = 4
  MaxCalls = 2
  MaxStalls = 1
  FormatRetries = 1
  AutoSteps = {0, 1, 2}
INVARIANTS BudgetHolds StatusIsHonest RevocationBites CancellationBites
PROPERTIES Terminates
CHECK_DEADLOCK FALSE
