CONSTANTS
  w1 = w1  w2 = w2  s1 = s1
  Workers = {w1, w2}
  Total = 2
  Replicas = {s1}
  MaxRestarts = 0

SPECIFICATION Spec
INVARIANTS
  NoPodLeftBehind
CHECK_DEADLOCK FALSE
