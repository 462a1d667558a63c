SPECIFICATION Spec
CONSTANTS
  Prompt = {p1, p2}
  Other = {}
  None = None
  MaxCompactions = 2
  MaxLeases = 0
INVARIANTS WaitsForCompaction
CHECK_DEADLOCK FALSE
