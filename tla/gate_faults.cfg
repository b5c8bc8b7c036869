\* One Tier B or Tier C obligation, two handlers: failing and ambiguous port
\* calls, redelivered submissions, a reviewer who submits twice at once.
CONSTANTS
  o1 = o1  o2 = o2  x1 = x1
  Obligations = {o1}
  OldObligations = {x1}
  Reviewers = {r1, r2}
  Events = {e1, e2, e3}
  Requests = {q1, q2}
  None = None
  RoutedTiers <- TierBC
  Overwrites <- NoOverwrite
  Disturbances = {"throw", "ambiguous", "redeliver"}
  StrictEngine = TRUE
  ConcurrentSubmits = TRUE
SPECIFICATION Spec
SYMMETRY Symmetric
INVARIANTS
  TypeOK
  DecisionsAreAgreed
  LedgerExplainsGraph
  EffectsAreJustified
PROPERTIES
  DecisionIsFinal
\* A gate with nothing left to review stops.
CHECK_DEADLOCK FALSE
