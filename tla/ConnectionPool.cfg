SPECIFICATION FairSpec
CONSTANTS
  Threads = {m, t1, t2, t3}
  Main = m
  Capacity = 2
  Statements = {s1, s2}
  MaxCalls = 1
  NoConnection = NoConnection
  NoStatement = NoStatement
INVARIANTS ConnectionsConserved TransactionsEndBeforeReturn PreparedBeforeUse NoLostWakeup
PROPERTIES EveryCallCompletes RentalSpec
