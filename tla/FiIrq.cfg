SPECIFICATION Spec
CONSTANTS
  Lines = {l1, l2}
  Shared = {l2}
  M = 8
  A = 5
  C = 1
  Odds = {0, 2}
INVARIANTS OneKindOfFault NullCallIsARace
PROPERTIES FaultsHappen
