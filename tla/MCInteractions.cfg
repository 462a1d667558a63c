SPECIFICATION FairSpec
CONSTANTS
  r1 = r1
  r2 = r2
  Agent = {main, sub}
  Request = {r1, r2}
  KindsOf <- KindsOfEach
  None = None
  MaxTurns = 1
INVARIANTS
  KernelInvariant
  BridgeFollowsKernel
  NothingLeftBehind
PROPERTIES
  AnsweredOnce
  RemoveReturns
CHECK_DEADLOCK FALSE
