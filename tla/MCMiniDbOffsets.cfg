\* Values on disk and a call of the storage that fails.
SPECIFICATION Spec
CONSTANTS
  k1 = k1
  k2 = k2
  set1 = set1
  del1 = del1
  batch12 = batch12
  Key = {k1, k2}
  Write = {set1, del1, batch12}
  Puts <- PutsOf
  Dels <- DelsOf
  Absent = Absent
  Torn = Torn
  Worlds <- DiskWithError
  MaxCompactions = 2
  MaxCrashes = 1
INVARIANT PointersReadTheirValue
CHECK_DEADLOCK FALSE
