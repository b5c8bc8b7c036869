\* The agents and the stores, one at a time.
CONSTANTS
  None = None  a = a  b = b  x = x  y1 = y1  y2 = y2  t1 = t1  u1 = u1  u2 = u2  f1 = f1  s1 = s1  s2 = s2
  o1 = o1  o2 = o2  o3 = o3  r1 = r1  r2 = r2  r3 = r3  r4 = r4  n1 = n1  k1 = k1  k2 = k2
  l1 = l1  l2 = l2  l3 = l3
  \* The watch: two listings, batches of two, two cycles, two failures, one change.
  Pages = {a, b, x}  Listings <- TwoListings  Short = {x}  AmendingPages = {b}
  TitleLikeness <- LikenessOfTitles  PhraseLikeness <- LikenessOfPhrases
  maxRetries = 1  detailFetchConcurrency = 2  Cycles = {y1, y2}  MaxFailures = 2  MaxChanges = 1
  \* The monitor: a task, two uploads, two scans, an append made twice, two hours.
  Tasks = {t1}  SlaHours <- DueInAnHour  Contents = {f1}  Uploads = {u1, u2}  Scanners = {s1, s2}  MaxLost = 1  MaxTime = 2  Lookback = 0
  \* The pipeline: five clauses, two obligations in the graph, two failures, one change by another run.
  Clauses <- FiveClauses  Obligations = {o1, o2}  StatesOf <- StatesOfTwo  Drafts <- FourDrafts  Assessments <- FourAssessments
  Overlaps <- Overlap  ReferenceDay = 40  MaxCallFailures = 2  MaxRivals = 1
  \* The agent: eight events, an alignment call for each clause of a document, one closure.
  Events <- DeltaEvents  OldClauses <- FourClauses  TargetObligations = {o1, o2, o3}  ClauseOf <- ClausesOfThree
  TaskOf <- TasksOfThree  Quotes <- TwoQuotes  Confidences = {50, 90}  MAX_ALIGNMENT_BATCH_SIZE = 1  MaxClosures = 1
  \* Migrations: two runners, two files with two versions each, two crashes; no file is
  \* changed while a runner is between reading it and recording it.
  Runners = {r1, r2}  Files = 2  Versions = 2  Stores = {"graph", "sql"}  MaxCrashes = 2  EditsAnytime = FALSE
SPECIFICATION Spec
SYMMETRY Symmetric
INVARIANTS
  TypeOK
  NewsIsAccounted
  MonitoringIsTrue
  ObligationsHaveOneFate
  RoutingIsCautious
  GraphIsSound
  MigrationsAreRecorded
PROPERTIES
  CommitsAreSerial
\* A cycle, a proposal and a run of the pipeline end, and so do the calls of a store.
CHECK_DEADLOCK FALSE
