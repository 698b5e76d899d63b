CONSTANTS
  None = None
  DECISION_DEFAULTS <- MCDefaults
  DECISION_CHOICES <- MCChoices
  Libs <- MCLibs
  Assessor = "judge"
  Spelling <- MCSpelling
  Setups <- MCSetups
  Plans <- MCPlans
  Scores = {0, 100}
  PROBED = {"file", "terminal"}
  THRESHOLD = 55
  MaxLate = 1
SPECIFICATION Spec
INVARIANTS VerdictsAreEarned ExitTells
PROPERTIES EveryVettingEnds
