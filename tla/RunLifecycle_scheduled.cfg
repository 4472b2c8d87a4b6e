SPECIFICATION FairSpec
CONSTANTS
  Runs = {r1}
  NoRun = NoRun
  Documents = {"pass", "fallback"}
  Clients = {c1}
  MaxFaults = 0
  MaxRestarts = 0
PROPERTIES
  ScheduledTrackedAlike
CHECK_DEADLOCK FALSE
