SPECIFICATION StreamSpec
CONSTANTS
  NRuns = 1
  NBuilds = 1
  RecentLimit = 1
  Clients = {c1, c2}
  BufferSize = 1
  MaxChanges = 2
CHECK_DEADLOCK FALSE
INVARIANT ThreadSafeFanOut
