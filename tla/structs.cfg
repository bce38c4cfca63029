SPECIFICATION Spec
CONSTANTS
  MaxSlots = 2
  MaxDepth = 3
  MaxRoots = 2
  Proxies = {x1}
INVARIANT RefcountIsOwners
INVARIANT ObjectCountIsFields
INVARIANT FreeListExact
PROPERTY Isolated
CHECK_DEADLOCK FALSE
