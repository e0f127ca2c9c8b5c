SPECIFICATION FairSpec
CONSTANTS
  NewKernel = FALSE
  Drivers = {d1, d2}
  None = None
  MapSize = 3
  MaxLoads = 5
INVARIANT UnloadIsClean
