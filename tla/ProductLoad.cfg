SPECIFICATION FairSpec
CONSTANTS
  Loaders = {m, d}
  Monitor = m
  PoolThreads = 2
  Archives = {a}
  FileIndex = {}
  Configs <- MCConfigs
  Manifests <- MCManifests
  Roots <- MCRoots
  e = e
  r = r
  Records = 1
  Hosts = 2
  Size <- MCSize
  MaxSize = 2
  MaxLoads = 1
INVARIANTS ManifestsAreWhole TasksEndBeforeReturn UndisturbedLoadSucceeds ConcurrentDownloadsConverge LoadsNeverStuck
PROPERTIES LoadsReturn
