CONSTANTS
  w1 = w1  w2 = w2  w3 = w3
  s1 = s1  s2 = s2
  Workers = {w1, w2, w3}
  Total = 3
  Replicas = {s1, s2}
  MaxRestarts = 1
  MaxMishaps = 2

SPECIFICATION RunnerSpec
INVARIANTS
  TestRunsOnWholeFiles
PROPERTIES
  EveryPodSettles
  StartedTestIsReported
  PodKeepsPromise
CHECK_DEADLOCK FALSE
