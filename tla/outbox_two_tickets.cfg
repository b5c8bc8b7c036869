\* Nothing fails; worker runs overlap.
CONSTANTS
  None = None
  Tasks = {t1}
  Unresolvable = {}
  Workers = {w1, w2}
  Sweepers = {s1}
  BatchSize = 2
  MaxAttempts = 1
  Faults = {}
  Ambiguous = {}
  Resettable = {}
  MaxRows = 2
  MaxTickets = 2
SPECIFICATION Spec
SYMMETRY Symmetric
INVARIANTS
  OneTicketPerTask
\* When every row is done and every task has its ticket nothing is left to do.
CHECK_DEADLOCK FALSE
