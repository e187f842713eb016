SPECIFICATION Spec
CONSTANTS
  d1 = d1
  d2 = d2
  t1 = t1
  d = d
  t = t
  None = None
  Ident = {d1, d2, t1}
  Adapter = {d, t}
  AdapterOf <- TwoAdapters
  User = {u1, u2}
  Token = {k1}
  Slot = {x1}
  MaxCrashes = 1
SYMMETRY Fresh
INVARIANTS
  TokenLinksOnce
  OrphansOnlyByCrash
PROPERTY
  IdentityMovesOnlyOnRequest
CHECK_DEADLOCK FALSE
