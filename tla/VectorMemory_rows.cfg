SPECIFICATION Spec
CONSTANTS
  None = None
  Task = {t1, t2}
  Id = {i1, i2}
  Topic = {x}
  Settings = {FALSE, TRUE}
  FetchK = 2
  Lifetime <- OneOrTwoTicks
  MaxNow = 3
  MaxCrashes = 1
SYMMETRY Alike
INVARIANTS
  Paired
  StoredIsKept
PROPERTY
  OnlyForgottenIsDeleted
CHECK_DEADLOCK FALSE
