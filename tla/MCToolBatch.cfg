SPECIFICATION FairSpec
CONSTANTS
    N = 4
    x = x
    y = y
    Keys <- MCKeys
    KeyOf <- MCKeyOf
    Paths <- MCPaths
    Accesses <- MCAccesses
    Conflict <- conflict
    NoAccess <- MCNone
    Delivers <- MCFirst
    PlanAllows <- MCPlan
    MayDispose = TRUE
INVARIANTS
  BatchInvariant
  NoMissedStart
  ConflictingToolsNeverOverlap
  DuplicatesShareTheResult
  RanCallKeepsItsResult
PROPERTIES
  ImplementsScheduler
  EveryCallIsAnswered
CHECK_DEADLOCK FALSE
