\* The error comes after the review is written, and the client retries.
CONSTANTS
  o1 = o1  o2 = o2  x1 = x1
  Obligations = {o1}
  OldObligations = {x1}
  Reviewers = {r1, r2}
  Events = {e1, e2, e3}
  Requests = {q1, q2}
  None = None
  RoutedTiers <- TierB
  Overwrites <- NoOverwrite
  Disturbances = {"ambiguous", "redeliver"}
  StrictEngine = TRUE
  ConcurrentSubmits = TRUE
SPECIFICATION Spec
SYMMETRY Symmetric
PROPERTIES
  RetryIsNotASecondReview
\* A gate with nothing left to review stops.
CHECK_DEADLOCK FALSE
