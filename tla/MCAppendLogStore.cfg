\* One log, two generations of its buffer, a crash and the process after it; appends
\* are atomic.
\* The log may be left for good, so the run may end.
SPECIFICATION FairSpec
CONSTANTS
  Rec = {r1, r2}
  Snapshot = {s1, s2, s3}
  Torn = Torn
  Garbage = Garbage
  MaxGens = 2
  MaxOwners = 2
  MaxRestarts = 1
  TornWrites = FALSE
INVARIANT BufferInvariant
PROPERTIES
  FlushIsDurableOrCutOver
  RefinesAppendLog
  AppendsAreWritten
CHECK_DEADLOCK FALSE

