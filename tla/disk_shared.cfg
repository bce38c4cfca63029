SPECIFICATION Spec
CONSTANTS
  Keys = {k1}
  Procs = {p1, p2}
  Values = {"small"}
  Absent = Absent
  Empty = Empty
  SizeOf <- Sizes
  MaxSize = 1
  TTL = 2
  Bump = 1
  MaxTime = 2
  MaxCrash = 0
INVARIANT PartialHasWriter
PROPERTY HitsAreFresh
