SPECIFICATION Spec
CONSTANTS
  boss = boss
  ann = ann
  bob = bob
  eve = eve
  core = core
  duo = duo
  x = x
  y = y
  Goal = Goal
  None = None
  Names = {boss, ann, bob, eve}
  Texts = {x, y}
  Setups <- MCSetups
  MaxFaults = 1
CHECK_DEADLOCK FALSE
INVARIANTS TypeOK PeersWereApproved StepGetsItsAnswer OutcomeIsTold
PROPERTIES EveryCraftReturns
