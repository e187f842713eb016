SPECIFICATION Spec
CONSTANTS
  None = None
  Task = {t1, t2}
  Id = {i1, i2}
  Topic = {x}
  Settings = {FALSE, TRUE}
  FetchK = 2
  Lifetime <- OneOrTwoTicks
  MaxNow = 3
  MaxCrashes = 1
SYMMETRY Alike
INVARIANTS
  TypeOK
\* Each of these in their place is violated:
\*   INVARIANT NoNearDuplicates
\*   PROPERTY NothingIsErased
\*   PROPERTY MergeKeepsTheHigher
\*   PROPERTY NothingRaisedIsDeleted
\*   INVARIANT FlashbulbIsKept
\*   INVARIANT RestatedIsKept
CHECK_DEADLOCK FALSE
