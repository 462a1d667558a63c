SPECIFICATION FairSpec
CONSTANTS
  Prompt = {p1, p2, p3}
  Other = {o1}
  None = None
  MaxCompactions = 2
  MaxLeases = 1

INVARIANTS
  QueueInvariant
  NothingLost
  StartedInOrder
  SteeredSettlesWithItsTurn
PROPERTIES
  CompactionsAreSerial
  EveryPromptSettles
CHECK_DEADLOCK FALSE
