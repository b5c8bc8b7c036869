\* The search over reviews while an obligation waits for its second review.
CONSTANTS
  None = None  oC = oC  o1 = o1  o2 = o2  o3 = o3
  r1 = r1  r2 = r2  k1 = k1  k2 = k2  y1 = y1  y2 = y2
  t1 = t1  t2 = t2  j1 = j1  j2 = j2  q1 = q1  i1 = i1  w1 = w1  w2 = w2
  \* Slack: one obligation, two reviewers, two clicks, one repeated request, a restart.
  Obligations = {oC}  RoutedTiers = {"B", "C", "ESCALATE"}
  Reviewers = {r1, r2}  Clicks = {k1, k2}  MaxRepeats = 1  Mistakes = FALSE
  \* Reminders: one obligation, two reviewers, two cycles that overlap, twenty hours.
  Claimants = {r1, r2}  Cycles = {y1, y2}  TickHours = 4  MaxTime = 20
  \* The console: a tab for each, two decisions from each, one lost request or answer.
  Tabs = {t1, t2}  ReviewerOf <- OneTabEach  MaxRequests = 2  MaxLost = 1
  \* The queue: three items, pages of one or two, one of them changed while the pages are read.
  Items = {o1, o2, o3}  Ranking <- ByRisk  MAX_LIMIT = 2  DEFAULT_LIMIT = 1  MaxPages = 3  MaxChanges = 1
  \* Exports: two jobs, one at a time, a panel; jobs are old after one tick, gone after two.
  Jobs = {j1, j2}  Panels = {p1}  MaxConcurrent = 1  StaleAge = 0  Retention = 2  MaxAge = 2
  \* The assistant: one question about two obligations that are reviewed meanwhile, two failures.
  ObligationIds = {o1, o2}  Turns = {q1}  Classifications <- ClassifierOutputs  PageSize = 1  MaxFailures = 2
  \* Its limiter: two questions in two units of time, six questions in five.
  Askers = {i1}  Limit = 2  Window = 2  Horizon = 5  MaxAsked = 6
SPECIFICATION Spec
SYMMETRY Symmetric
INVARIANTS
  SearchIsGuarded
\* When the clock has stopped and all questions are asked nothing is left to do.
CHECK_DEADLOCK FALSE
