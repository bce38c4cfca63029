SPECIFICATION Spec
CONSTANTS
  MaxSlots = 2
  MaxDepth = 2
  MaxRoots = 1
  Proxies = {x1, x2}
INVARIANT OwnedIsLive
CHECK_DEADLOCK FALSE
