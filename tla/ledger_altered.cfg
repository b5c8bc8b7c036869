\* Walks of several pages beside appends, and stored columns that change under them.
CONSTANTS
  None = None
  Garbled = Garbled
  Callers = {c1}
  Verifiers = {v1}
  Contents = {e1}
  Ranges <- Parts
  PageSize = 2
  MaxAttempts = 1
  MaxCalls = 4
  MaxDamaged = 1
  MaxTime = 1
  Faulty = FALSE
SPECIFICATION AlteredSpec
SYMMETRY Symmetric
INVARIANTS
  VerifierIsRight
\* When all calls are made and answered nothing is left to do.
CHECK_DEADLOCK FALSE
