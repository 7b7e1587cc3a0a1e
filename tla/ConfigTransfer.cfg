SPECIFICATION Spec
CONSTANTS
  Doc = {d1, d2}
  Garbage = Garbage
  TotalChunks = 2
  QueueLen = 2
  MaxRequests = 1
  MaxCalls = 1
INVARIANTS DeliveredIntact BusyMatchesJob FreshRequestAccepted
PROPERTY BufferReleased
