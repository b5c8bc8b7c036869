\* An obligation routed to ESCALATE, nothing fails.
CONSTANTS
  o1 = o1  o2 = o2  x1 = x1
  Obligations = {o1}
  OldObligations = {x1}
  Reviewers = {r1, r2}
  Events = {e1, e2}
  Requests = {q1, q2}
  None = None
  RoutedTiers <- Escalate
  Overwrites <- NoOverwrite
  Disturbances = {}
  StrictEngine = TRUE
  ConcurrentSubmits = FALSE
SPECIFICATION FairSpec
PROPERTIES
  SuspensionsEnd
\* A gate with nothing left to review stops.
CHECK_DEADLOCK FALSE
