CONSTANTS
  w1 = w1  w2 = w2  w3 = w3  w4 = w4  w5 = w5
  s1 = s1  s2 = s2
  Workers = {w1, w2, w3, w4, w5}
  Total = 3
  Replicas = {s1, s2}
  MaxRestarts = 1

SPECIFICATION Spec
SYMMETRY PodSymmetry
INVARIANTS
  TypeOK
  AnswerCountsArrivals
  OneInstant
  TimeoutReleasesNobody
  IndInv
PROPERTIES
  KeepsPromise
CHECK_DEADLOCK FALSE
