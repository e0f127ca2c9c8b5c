SPECIFICATION FairSpec
CONSTANTS
  NewKernel = FALSE
  Drivers = {d1, d2}
  None = None
  MapSize = 3
  MaxLoads = 5
INVARIANTS TypeOK CaughtIsClean FailedLoadLeavesWork
INVARIANTS RegistrationBreaks LoadedIsScanned
PROPERTIES PollsForever UnloadFinishes
