SPECIFICATION ControlPlaneSpec
CONSTANTS
  AllowInsecureOverride = FALSE
  NArtifacts = 1
  Platforms <- OneTarget
  Archives <- ManyArchives
  Clients = {c1, c2}
  NBuilders = 2
  MaxFaults = 0
  Schedules = {s1}
  Configs = {f1}
  Names = {n1}
  Contents = {v1, v2}
  Crons = {x1}
  Editors = {e1, e2}
  MaxHiccups = 1
  None = None
  Absent = Absent
CHECK_DEADLOCK FALSE
INVARIANTS
  OnlyAnalysedCode
  ReadyWasBuilt
  QuietScheduleIsMirrored
  QuietConfigHasObject
  SharesAddUp
PROPERTIES
  BuildsSettle
