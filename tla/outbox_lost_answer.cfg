\* The answer of the query that frees a row is lost.
CONSTANTS
  None = None
  Tasks = {t1}
  Unresolvable = {}
  Workers = {w1, w2}
  Sweepers = {s1}
  BatchSize = 2
  MaxAttempts = 1
  Faults = {"create"}
  Ambiguous = {"retry"}
  Resettable = {}
  MaxRows = 1
  MaxTickets = 2
SPECIFICATION Spec
SYMMETRY Symmetric
INVARIANTS
  OneWorkerPerRow
\* When every row is done and every task has its ticket nothing is left to do.
CHECK_DEADLOCK FALSE
