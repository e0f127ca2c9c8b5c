SPECIFICATION ControlSpec
CONSTANTS
  Faults = {0, 8}
  Toggles = {30}
  Modes = {"ignore", "include", "exclude"}
  Numbers = {5}
  Odds = {0, 1, 2, 3}
  Unit = 2
  UMax = 3
  MaxCommands = 2
  Truncated = TRUE
INVARIANTS ControlTypeOK Obeyed
