SPECIFICATION Spec
CONSTANTS
  Runs = {r1}
  NoRun = NoRun
  Documents = {"pass", "fallback"}
  Clients = {c1, c2}
  MaxFaults = 0
  MaxRestarts = 0
PROPERTIES
  AbortIsPermanent
CHECK_DEADLOCK FALSE
