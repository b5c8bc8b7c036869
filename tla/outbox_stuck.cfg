\* Nothing fails but the answer of a claim, which is lost.
CONSTANTS
  None = None
  Tasks = {t1}
  Unresolvable = {}
  Workers = {w1}
  Sweepers = {s1}
  BatchSize = 2
  MaxAttempts = 1
  Faults = {}
  Ambiguous = {"claim"}
  Resettable = {}
  MaxRows = 1
  MaxTickets = 2
SPECIFICATION FairSpec
PROPERTIES
  EveryTaskIsSettled
\* When every row is done and every task has its ticket nothing is left to do.
CHECK_DEADLOCK FALSE
