SPECIFICATION FairSpec
CONSTANTS
  Runs = {r1}
  NoRun = NoRun
  Documents = {"pass"}
  Clients = {c1}
  MaxFaults = 1
  MaxRestarts = 1
PROPERTIES
  QuietRunIsFinal
  DeletedRunStaysDeleted
  LiveJobDecidesRun
  DeletedJobEndsRun
CHECK_DEADLOCK FALSE
