SPECIFICATION Spec
CONSTANTS
  Runs = {r1}
  NoRun = NoRun
  Documents = {"pass", "fallback"}
  Clients = {c1}
  MaxFaults = 0
  MaxRestarts = 0
INVARIANTS
  NoReportMeansFailed
CHECK_DEADLOCK FALSE
