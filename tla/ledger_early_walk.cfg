\* A walk over a range that begins beyond the end of the chain.
CONSTANTS
  None = None
  Garbled = Garbled
  Callers = {c1, c2}
  Verifiers = {v1}
  Contents = {e1}
  Ranges <- Parts
  PageSize = 2
  MaxAttempts = 2
  MaxCalls = 3
  MaxDamaged = 1
  MaxTime = 0
  Faulty = FALSE
SPECIFICATION Spec
SYMMETRY Symmetric
INVARIANTS
  AlarmsNameABreak
\* When all calls are made and answered nothing is left to do.
CHECK_DEADLOCK FALSE
