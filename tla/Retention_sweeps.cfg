SPECIFICATION Spec
CONSTANTS
  AllowInsecureOverride = FALSE
  NArtifacts = 1
  Platforms <- OneTarget
  Archives <- OneArchive
  Clients = {c1}
  NBuilders = 1
  MaxFaults = 1
  NRuns = 1
  Sweepers = {s1, s2}
  Policies <- TwoPolicies
  MaxAge = 1
SYMMETRY SweepersAlike
CONSTRAINT FaultsMeetOneSweep
INVARIANTS
  BinaryKeyOnlyWhenReady
  ReportsHaveARow
