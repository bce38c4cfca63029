SPECIFICATION Spec
CONSTANTS
  Keys = {k1, k2}
  Procs = {p}
  Values = {"small", "big"}
  Absent = Absent
  Empty = Empty
  SizeOf <- Sizes
  MaxSize = 2
  TTL = 3
  Bump = 2
  MaxTime = 3
  MaxCrash = 1
PROPERTY ActsAsMap
INVARIANT SetEndsWithinLimit
PROPERTY EvictsLeastRecent
