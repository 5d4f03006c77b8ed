SPECIFICATION Spec
CONSTANTS
  Callers = {c1, c2}
  Builds = {b1}
  Lifetimes = {3}
  InsertLifetime = 3
  ExpiryPeriod = 2
  LoadMayFail = FALSE
  MaxCalls = 1
  MaxTime = 2
  NoBuild = NoBuild
  NoRecord = NoRecord
INVARIANT HandlerSeesLoadedProduct
