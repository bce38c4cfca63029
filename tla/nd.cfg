SPECIFICATION Spec
CONSTANTS
  Values = {0, 1}
  Hash <- OwnHash
  MaxDepth = 2
  MaxFrames = 4
  Fn = fn
INVARIANT OwnUntilUnwound
INVARIANT EntriesAreFrames
INVARIANT DepthCountsLive
INVARIANT AbortAtRest
