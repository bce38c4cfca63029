SPECIFICATION Spec
CONSTANTS
  Values = {0, 1}
  Hash <- OneHash
  MaxDepth = 2
  MaxFrames = 4
  Fn = fn
INVARIANT RecurReturnsOwn
