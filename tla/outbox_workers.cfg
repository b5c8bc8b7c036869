\* Two worker runs that overlap, and everything fails.
CONSTANTS
  None = None
  Tasks = {t1}
  Unresolvable = {}
  Workers = {w1, w2}
  Sweepers = {s1}
  BatchSize = 2
  MaxAttempts = 1
  Faults = {"create", "createLost", "store", "ledger", "crash"}
  Ambiguous = {"claim", "map", "succeed"}
  Resettable = {"failed_permanent"}
  MaxRows = 1
  MaxTickets = 2
SPECIFICATION Spec
SYMMETRY Symmetric
INVARIANTS
  TypeOK
  SucceededIsMapped
  OneWorkerPerRow
  TicketsAreAccounted
PROPERTIES
  FailureIsTrue
\* When every row is done and every task has its ticket nothing is left to do.
CHECK_DEADLOCK FALSE
