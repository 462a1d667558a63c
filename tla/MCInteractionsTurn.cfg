SPECIFICATION Spec
CONSTANTS
  r1 = r1
  r2 = r2
  Agent = {main, sub}
  Request = {r1}
  KindsOf <- KindsOfEach
  None = None
  MaxTurns = 1
INVARIANT CancelledByItsOwnTurn
CHECK_DEADLOCK FALSE
