\* A stored row is lost, though not the last one.
CONSTANTS
  None = None
  Garbled = Garbled
  Callers = {c1}
  Verifiers = {v1}
  Contents = {e1}
  Ranges <- Whole
  PageSize = 2
  MaxAttempts = 2
  MaxCalls = 4
  MaxDamaged = 1
  MaxTime = 0
  Faulty = FALSE
SPECIFICATION LossySpec
SYMMETRY Symmetric
INVARIANTS
  IntactMeansUndamaged
\* When all calls are made and answered nothing is left to do.
CHECK_DEADLOCK FALSE
