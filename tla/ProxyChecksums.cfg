SPECIFICATION ProxySpec
CONSTANTS
  QueueLimit = 2
  Threads = 2
  MaxRequests = 1
  MaxBacklog = 2
  Hosts = {h1, h2}
  Files <- GenuineFiles
  SizeMod = 32
  MaxJunk = 1
INVARIANT WholeFileDelivered
