\* A torn append, then a restart.
\* The log may be left for good, so the run may end.
SPECIFICATION Spec
CONSTANTS
  Rec = {r1, r2}
  Snapshot = {s1}
  Torn = Torn
  Garbage = Garbage
  MaxGens = 1
  MaxOwners = 1
  MaxRestarts = 1
  TornWrites = TRUE
INVARIANTS
  Readable
CHECK_DEADLOCK FALSE
