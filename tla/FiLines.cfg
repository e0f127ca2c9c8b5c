SPECIFICATION Spec
CONSTANTS
  Callers = {c1, c2}
  Lines <- DriverLines
  Direct <- Unverified
  Max = 2
  Totals = {1}
  UMax = 3
  Tally = 6
INVARIANTS TypeOK PanicsExplained SelectionHeeded FaultsBounded
PROPERTY FaultsStop
CHECK_DEADLOCK FALSE
