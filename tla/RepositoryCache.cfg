SPECIFICATION FairSpec
CONSTANTS
  Users = {u1, u2}
  Files = {f1}
  Channels = {c1}
  MaxCommands = 2
  MaxPushes = 1
  NoFile = NoFile
INVARIANTS CacheIsSnapshot IteratorsStayValid
PROPERTIES CacheCatchesUp PushesEnd
