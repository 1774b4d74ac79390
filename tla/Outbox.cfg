SPECIFICATION FairSpec
CONSTANTS
  Events = {e1, e2}
  Workers = {w1, w2}
  MaxAttempts = 2
  BatchSize = 2
  Faults <- FaultKinds
  Nobody = Nobody
INVARIANTS NoDuplicate
PROPERTIES LateWorkerHarmless KeepsContract EventuallySettled
CHECK_DEADLOCK FALSE
