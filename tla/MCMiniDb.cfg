\* Two compactions, two crashes and, where the values are in memory, a failing call of
\* the storage.  When every call is answered nothing has to happen.
SPECIFICATION FairSpec
CONSTANTS
  k1 = k1
  k2 = k2
  set1 = set1
  del1 = del1
  batch12 = batch12
  Key = {k1, k2}
  Write = {set1, del1, batch12}
  Puts <- PutsOf
  Dels <- DelsOf
  Absent = Absent
  Torn = Torn
  Worlds <- TwoWorlds
  MaxCompactions = 2
  MaxCrashes = 2
INVARIANT StoreInvariant
PROPERTIES
  RefinesDurableMap
  EveryWriteIsAnswered
CHECK_DEADLOCK FALSE
