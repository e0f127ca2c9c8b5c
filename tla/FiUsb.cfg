SPECIFICATION FairSpec
CONSTANTS
  Urbs = {u1, u2}
  Contexts = {k1, k2, k3}
  None = None
INVARIANTS NoPanic Unwinds
PROPERTIES OwnContext KeepsContract
