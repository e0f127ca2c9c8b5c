SPECIFICATION Spec
CONSTANTS
  t1 = t1
  t2 = t2
  m1 = m1
  m2 = m2
  m3 = m3
  None = None
  Threads = {t1, t2}
  Bases = {1, 2}
  Masks = {m1, m2, m3}
  MapSize = 2
SYMMETRY Alike
INVARIANTS TypeOK MapWellFormed MasksOwned
PROPERTY LeaksExplained
CHECK_DEADLOCK FALSE
