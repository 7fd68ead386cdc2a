SPECIFICATION Spec
CONSTANTS
  k1 = k1 k2 = k2 v1 = v1 v2 = v2
  Stored = {k1, k2}
  MemOnly = {m}
  Value = {v1, v2}
  Marker = {v1}
  Size <- MCSize
  Rank <- MCRank
  Scratch = {0}
  Final = Final
  MemBudget = 2
  DiskBudget = 2
  Ttl = {1}
  Grace = 0
  MaxTime = 1
  MaxFaults = 1
  None = None
INVARIANT MemoryAccounted
PROPERTIES ImplementsForgetfulMap SweepIsExact
