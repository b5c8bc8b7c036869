\* Two proposals that overwrite one obligation. Nothing fails and no reviewer submits twice at once: one maker and one checker, and
\* every suspended obligation is decided, or released because a Tier A proposal
\* closed its old obligation first.
CONSTANTS
  o1 = o1  o2 = o2  x1 = x1
  Obligations = {o1, o2}
  OldObligations = {x1}
  Reviewers = {r1, r2}
  Events = {e1, e2}
  Requests = {q1, q2}
  None = None
  RoutedTiers <- LiveTiers
  Overwrites <- SameTarget
  Disturbances = {}
  StrictEngine = TRUE
  ConcurrentSubmits = FALSE
SPECIFICATION FairSpec
INVARIANTS
  ReviewsAreOrderly
  SupersessionIsExact
PROPERTIES
  SuspensionsEnd
  SupersededOnce
  ImplementsPolicy
\* A gate with nothing left to review stops.
CHECK_DEADLOCK FALSE
