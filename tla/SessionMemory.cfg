SPECIFICATION Spec
CONSTANTS
  a = a
  b = b
  c = c
  p1 = p1
  p2 = p2
  s1 = s1
  s2 = s2
  None = None
  Calls = {a, b, c}
  Sessions = {s1, s2}
  Processes = {p1, p2}
  SessionOf <- MCSessionOf
  TextOf <- MCTextOf
  Setups <- MCSetups
  LocksMax = 1
  Attempts = 2
  DocMax = 3
CHECK_DEADLOCK FALSE
INVARIANTS TypeOK TurnsKeptOnce
PROPERTIES EveryChatReturns
