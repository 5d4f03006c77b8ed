SPECIFICATION Spec
CONSTANTS
  Callers = {c1, c2}
  Builds = {b1}
  Lifetimes = {1, 3}
  InsertLifetime = 3
  ExpiryPeriod = 2
  LoadMayFail = TRUE
  MaxCalls = 2
  MaxTime = 4
  NoBuild = NoBuild
  NoRecord = NoRecord
SYMMETRY Symmetry
INVARIANTS LoaderKeepsRecord EvictedOnTime KeptAsLongAsAsked
  BoundedDuplication AnswerIsKept
