SPECIFICATION ProxySpec
CONSTANTS
  QueueLimit = 2
  Threads = 2
  MaxRequests = 2
  MaxBacklog = 2
  Hosts = {h1, h2}
  Files <- MCFiles
  SizeMod = 32
  MaxJunk = 1
INVARIANTS OneReaderAtATime DeliveredBlocksAreChecked
PROPERTIES CleanCloseEndsSession
