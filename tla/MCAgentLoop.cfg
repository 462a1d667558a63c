SPECIFICATION Spec
CONSTANTS
  p1 = p1
  p2 = p2
  p3 = p3
  s1 = s1
  i1 = i1
  m1 = m1
  h1 = h1
  c1 = c1
  l1 = l1
  NoReq = NoReq
  Req = {p1, s1, m1, h1, c1, l1}
  Kind <- KindOf
  MaxSteps = 2
  MaxAttempts = 2
  MaxOverflows = 1
  MaxLeases = 2
INVARIANTS
  LoopInvariant
  NoRequestLost
  PromisesSettle
PROPERTIES
  AbortedNeverDrives
  RetryComesFirst
  RefinesTurnLifecycle
CHECK_DEADLOCK FALSE
