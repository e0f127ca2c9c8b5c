SPECIFICATION LoopFairSpec
CONSTANTS
  Limit = 200
  Entries = 3
  Skips = 2
INVARIANT FailsAfterLimit
PROPERTIES LoopEnds
