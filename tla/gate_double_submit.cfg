\* One reviewer submits twice at once on a Tier C obligation, nothing fails.
CONSTANTS
  o1 = o1  o2 = o2  x1 = x1
  Obligations = {o1}
  OldObligations = {x1}
  Reviewers = {r1, r2}
  Events = {e1, e2, e3}
  Requests = {q1, q2}
  None = None
  RoutedTiers <- TierC
  Overwrites <- NoOverwrite
  Disturbances = {}
  StrictEngine = TRUE
  ConcurrentSubmits = TRUE
SPECIFICATION Spec
SYMMETRY Symmetric
INVARIANTS
  OneReviewPerReviewer
\* A gate with nothing left to review stops.
CHECK_DEADLOCK FALSE
