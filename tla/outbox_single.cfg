\* One worker run at a time; the ticket system refuses, and a task is not found.
CONSTANTS
  None = None
  Tasks = {t1, t2}
  Unresolvable = {t2}
  Workers = {w1}
  Sweepers = {s1}
  BatchSize = 2
  MaxAttempts = 1
  Faults = {"create"}
  Ambiguous = {}
  Resettable = {}
  MaxRows = 2
  MaxTickets = 2
SPECIFICATION FairSpec
PROPERTIES
  EveryTaskIsSettled
\* When every row is done and every task has its ticket nothing is left to do.
CHECK_DEADLOCK FALSE
