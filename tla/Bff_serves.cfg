SPECIFICATION BffSpec
CONSTANTS
  NRuns = 1
  NBuilds = 1
  RecentLimit = 1
  Clients = {c1, c2}
  BufferSize = 1
  MaxChanges = 2
  Ids = {s1}
  Sids = {k1}
  Requests = {1, 2}
  OneTimeRefresh = TRUE
  MaxGen = 2
  MaxKey = 2
  MaxCallFaults = 1
  Callers = {p, a, b}
  Poller = p
  Proxied = {b}
  MaxRequests = 2
  MinRequests = 2
  MaxRetries = 1
  MaxCounts = 4
  MaxOutages = 2
  MaxHangups = 1
CHECK_DEADLOCK FALSE
INVARIANTS
  StreamTypeOK RegisteredIsOpen ClosedOnce CurrentUnlessDropped
  NoServiceAfterLogout QuietSessionHasLatestTokens
  LogoutTokenEndsSessions AnswersCountOnce
PROPERTIES
  EveryStreamEnds EndedSessionsGo BreakerClosesAgain
