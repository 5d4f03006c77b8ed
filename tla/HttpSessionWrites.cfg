SPECIFICATION Spec
CONSTANTS
  QueueLimit = 2
  Threads = 2
  MaxRequests = 3
  MaxBacklog = 3
INVARIANT OneWriteAtATime
