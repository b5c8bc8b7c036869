\* Two callers and a walk, round trips that fail, appends that are tried again and end.
CONSTANTS
  None = None
  Garbled = Garbled
  Callers = {c1, c2}
  Verifiers = {v1}
  Contents = {e1}
  Ranges <- Whole
  PageSize = 2
  MaxAttempts = 2
  MaxCalls = 3
  MaxDamaged = 1
  MaxTime = 0
  Faulty = TRUE
SPECIFICATION FairSpec
INVARIANTS
  TypeOK
  ChainIsLinear
  AnsweredIsStored
PROPERTIES
  ImplementsLog
  EveryAppendEnds
\* When all calls are made and answered nothing is left to do.
CHECK_DEADLOCK FALSE
