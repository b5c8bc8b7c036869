\* Two reviewers decide one Tier B obligation at once, under the engine of the
\* integration tests.
CONSTANTS
  o1 = o1  o2 = o2  x1 = x1
  Obligations = {o1}
  OldObligations = {x1}
  Reviewers = {r1, r2}
  Events = {e1, e2, e3}
  Requests = {q1, q2}
  None = None
  RoutedTiers <- TierB
  Overwrites <- NoOverwrite
  Disturbances = {}
  StrictEngine = FALSE
  ConcurrentSubmits = TRUE
SPECIFICATION Spec
SYMMETRY Symmetric
INVARIANTS
  TicketsAreJustified
\* A gate with nothing left to review stops.
CHECK_DEADLOCK FALSE
