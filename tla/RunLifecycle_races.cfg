SPECIFICATION Spec
CONSTANTS
  Runs = {r1}
  NoRun = NoRun
  Documents = {"pass", "fallback"}
  Clients = {c1, c2}
  MaxFaults = 0
  MaxRestarts = 0
SYMMETRY ClientSymmetry
INVARIANTS
  TypeOK
  OutcomeHasCause
  OneOutcomePerRow
  AbortKillsJob
  IndInv
PROPERTIES
  QuietRunIsFinal
  DeletedRunStaysDeleted
CHECK_DEADLOCK FALSE
