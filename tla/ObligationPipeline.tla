-------------------------- MODULE ObligationPipeline --------------------------
(***************************************************************************)
(* From a clause to the commit plan of an obligation: extraction with      *)
(* context from the graph, grounding verification and, beside it, mapping  *)
(* with the risk score; then the tier and the plan (obligation-extraction, *)
(* grounding-verification and mapping-risk-scoring agents, the scorer and  *)
(* orchestrator.logic.ts).  A clause with one proposal; those of a clause  *)
(* are routed independently.                                               *)
(*                                                                         *)
(* Every lookup and every call of a model ends an action.  A lookup fails  *)
(* or exceeds its budget, a model answers what it likes or invalidly, and  *)
(* other runs commit and close obligations in between.  Scores are in      *)
(* hundredths, the risk score in thousandths.                              *)
(***************************************************************************)
EXTENDS Integers, Sequences, FiniteSets, SequencesExt, FiniteSetsExt, NoValue

CONSTANTS
  Clauses,      \* clauses that come in
  Obligations,  \* obligations of the graph
  StatesOf,     \* of each, the states it may be in; None: not there
  Drafts,       \* proposals the extraction model may make
  Assessments,  \* judgements of the fields the critic may make
  Overlaps(_, _),  \* trigger events of which one contains the other
  ReferenceDay,
  MaxCallFailures, MaxRivals

VARIABLES
  graph,        \* the version of each obligation
  clause,
  stage,        \* of the run
  tries,        \* failed attempts of the call under way
  context,      \* what the extraction found in the graph
  draft,
  confidence,   \* confidence_score
  critic,       \* state of verifyGrounding
  verification,
  mapping,      \* state of the three lookups of the mapping
  decision,     \* tier and plan
  faults, rivals

pipelineVars == <<graph, clause, stage, tries, context, draft, confidence, critic, verification, mapping, decision, faults, rivals>>

READ_RETRIES == 2
MODEL_RETRIES == 1
Fields == {"requirement_text", "trigger_event", "deadline_rule", "responsible_role", "evidence_required", "penalty_ref"}
FIELD_CASES == {"directly_stated", "paraphrase", "dropped_condition", "fabricated", "legitimately_absent"}
Tiers == {"A", "B", "C", "ESCALATE"}
Verdicts == {"pass", "borderline", "fail"}
MatchPaths == {"explicit", "heuristic", None}
PeriodDays == [annual |-> 365, quarterly |-> 90, monthly |-> 30, weekly |-> 7]

DeadlinePhrase(p) ==
  /\ p.kind = "T+" => p.n \in Nat
  /\ p.kind = "period" => p.n \in DOMAIN PeriodDays
  /\ p.kind = "by" => p.n = None \/ p.n \in Int

ASSUME PipelineAssumption ==
  /\ \A c \in Clauses : c.size \in {"short", "long", "fits"} /\ c.top \in 0..100 /\ c.supersedes \subseteq Obligations
  /\ \A d \in Drafts : d.certainty \in 0..100 /\ \A p \in d.deadline : DeadlinePhrase(p)
  /\ Assessments \subseteq [Fields -> FIELD_CASES]
  /\ ReferenceDay \in Int /\ MaxCallFailures \in Nat /\ MaxRivals \in Nat
  /\ None \notin Obligations \cup {"explicit", "heuristic"}

GraphRagContext ==
  [known: SUBSET UNION {c.categories : c \in Clauses}, similar: BOOLEAN, top: 0..100,
   related: SUBSET {v.category : v \in (UNION {StatesOf[o] : o \in Obligations}) \ {None}}, degraded: BOOLEAN]
GroundingVerificationOutput ==
  [grounding_score: 0..100, cases: [Fields -> FIELD_CASES], conflicts: SUBSET Obligations, verdict: Verdicts]
OverwriteCheckResult(r) ==
  /\ r.overwrites \in BOOLEAN /\ r.matchPath \in MatchPaths /\ r.degraded \in BOOLEAN
  /\ r.overwritten \in Obligations \cup {None}
  /\ r.overwritten # None <=> r.matchPath # None
  /\ r.degraded => r.overwrites /\ r.matchPath = None
FirstSeenCheckResult(r) == r.firstSeen \in BOOLEAN /\ (r.firstSeenDegraded => r.firstSeen)
TierDecision(d) == d.tier \in Tiers /\ d.risk \in 0..1000

PipelineTypeOK ==
  /\ \A o \in Obligations : graph[o] \in StatesOf[o]
  /\ clause \in Clauses
  /\ stage \in {"start", "categories", "similar", "related", "generate", "branches", "done", "informational", "failed"}
  /\ tries \in 0..READ_RETRIES
  /\ context \in GraphRagContext
  /\ draft \in Drafts \cup {None} /\ confidence \in 0..100
  /\ critic.at \in {"lookup", "generate", "done"} /\ critic.candidates \subseteq Obligations /\ critic.skipped \in BOOLEAN
  /\ verification \in GroundingVerificationOutput \cup {None}
  /\ mapping.overwriteAt \in {"explicit", "heuristic", "done"} /\ OverwriteCheckResult(mapping) /\ FirstSeenCheckResult(mapping)
  /\ decision = None \/ TierDecision(decision)
  /\ faults \in 0..MaxCallFailures /\ rivals \in 0..MaxRivals

NoContext == [known |-> {}, similar |-> FALSE, top |-> 0, related |-> {}, degraded |-> FALSE]
NoCritic == [at |-> "lookup", candidates |-> {}, skipped |-> FALSE, tries |-> 0]
NoMapping == [overwriteAt |-> "explicit", overwrites |-> FALSE, matchPath |-> None, overwritten |-> None, degraded |-> FALSE,
              firstSeenDone |-> FALSE, firstSeen |-> TRUE, firstSeenDegraded |-> FALSE]

PipelineInit ==
  /\ graph \in {g \in [Obligations -> UNION {StatesOf[o] : o \in Obligations}] : \A o \in Obligations : g[o] \in StatesOf[o]}
  /\ clause \in Clauses
  /\ stage = "start" /\ tries = 0
  /\ context = NoContext /\ draft = None /\ confidence = 0
  /\ critic = NoCritic /\ verification = None /\ mapping = NoMapping /\ decision = None
  /\ faults = 0 /\ rivals = 0

\* Another run commits, supersedes or closes an obligation.
Change(o, v) ==
  /\ rivals < MaxRivals /\ stage \notin {"done", "informational", "failed"} /\ v # graph[o]
  /\ graph' = [graph EXCEPT ![o] = v] /\ rivals' = rivals + 1
  /\ UNCHANGED <<clause, stage, tries, context, draft, confidence, critic, verification, mapping, decision, faults>>

CallFails == faults < MaxCallFailures /\ faults' = faults + 1

There == {o \in Obligations : graph[o] # None}

(***************************************************************************)
(* Extraction: the context.                                                *)
(***************************************************************************)
ExtractOnly == UNCHANGED <<graph, clause, confidence, critic, verification, mapping, decision, rivals>>

CheckClause ==
  /\ stage = "start"
  /\ stage' = CASE clause.size = "short" -> "informational"
                [] clause.size = "long" -> "failed"
                [] clause.size = "fits" -> "categories"
  /\ UNCHANGED <<tries, context, draft, faults>> /\ ExtractOnly

\* retryRead: three attempts; then the extraction goes on without.
Read(point, found, next, without) ==
  /\ stage = point
  /\ \/ /\ stage' = next /\ tries' = 0 /\ context' = found
        /\ UNCHANGED faults
     \/ /\ CallFails
        /\ IF tries < READ_RETRIES THEN tries' = tries + 1 /\ UNCHANGED <<stage, context>>
           ELSE tries' = 0 /\ context' = without
                /\ stage' = IF point = "categories" THEN "similar" ELSE "generate"
  /\ UNCHANGED draft /\ ExtractOnly

Degraded == [context EXCEPT !.degraded = TRUE]

ListCategories == Read("categories", [context EXCEPT !.known = clause.categories], "similar", context)

\* A clause whose embedding cannot be read is not looked up.
NoEmbedding ==
  /\ stage = "similar" /\ ~clause.embedded
  /\ stage' = "generate" /\ context' = Degraded
  /\ UNCHANGED <<tries, draft, faults>> /\ ExtractOnly

FindSimilar ==
  /\ clause.embedded
  /\ Read("similar", [context EXCEPT !.similar = clause.neighbours # {}, !.top = clause.top],
          IF clause.neighbours = {} THEN "generate" ELSE "related", Degraded)

RelatedObligations == {o \in There : graph[o].clause \in clause.neighbours /\ graph[o].status # "rejected"}

FindRelated ==
  Read("related", [context EXCEPT !.related = {graph[o].category : o \in RelatedObligations}], "generate", Degraded)

(***************************************************************************)
(* Extraction: the proposal and its confidence.                            *)
(***************************************************************************)
KnownNames == IF clause.given # {} THEN clause.given ELSE context.known

CompletenessPenalty(d) ==
  LET raw == (IF d.role = "unspecified" THEN 10 ELSE 0) + (IF d.evidence = "unspecified" THEN 10 ELSE 0)
             + (IF d.penalty = None /\ clause.penaltyLanguage THEN 15 ELSE 0)
             + (IF d.names \cap KnownNames = {} /\ d.names # {} THEN 10 ELSE 0)
  IN Min({raw, 35})

AmbiguityPenalty(d) ==
  Min({(IF d.hedged THEN 10 ELSE 0) + (IF d.names \ KnownNames # {} THEN 15 ELSE 0), 25})

\* A category among the related obligations has been seen; not if any lookup
\* was degraded.
FirstSeenForCategory(d) == context.degraded \/ d.category \notin context.related

GraphRagBonus(d) ==
  IF FirstSeenForCategory(d) THEN 0
  ELSE IF context.top >= 90 THEN 15 ELSE IF context.top >= 75 THEN 8 ELSE 0

Confidence(d) == Max({0, Min({100, d.certainty - CompletenessPenalty(d) - AmbiguityPenalty(d) + GraphRagBonus(d)})})

\* Two attempts; an invalid answer and a failed call use one each.
Propose ==
  /\ stage = "generate"
  /\ \/ \E d \in Drafts :
          /\ draft' = d /\ confidence' = Confidence(d)
          /\ stage' = "branches" /\ tries' = 0
          /\ UNCHANGED faults
     \/ /\ stage' = "informational" /\ tries' = 0
        /\ UNCHANGED <<draft, confidence, faults>>
     \/ /\ CallFails
        /\ IF tries < MODEL_RETRIES THEN tries' = tries + 1 /\ UNCHANGED stage
           ELSE stage' = "failed" /\ tries' = 0
        /\ UNCHANGED <<draft, confidence>>
  /\ UNCHANGED <<graph, clause, context, critic, verification, mapping, decision, rivals>>

(***************************************************************************)
(* Grounding verification.                                                 *)
(***************************************************************************)
CriticOnly == UNCHANGED <<graph, clause, tries, context, draft, confidence, mapping, decision, rivals>>

\* Committed obligations of the role and category in force when the circular
\* takes effect.
ContradictionCandidates ==
  {o \in There :
     /\ graph[o].role = draft.role /\ graph[o].category = draft.category
     /\ graph[o].status \in {"committed", "tier_a_committed"}
     /\ graph[o].valid_from <= clause.effective
     /\ graph[o].valid_to = None \/ graph[o].valid_to > clause.effective
     /\ Overlaps(graph[o].trigger, draft.trigger)}

\* Not retried: without candidates the verification goes on, marked skipped.
LookupCandidates ==
  /\ stage = "branches" /\ critic.at = "lookup"
  /\ \/ critic' = [critic EXCEPT !.at = "generate", !.candidates = ContradictionCandidates] /\ UNCHANGED faults
     \/ CallFails /\ critic' = [critic EXCEPT !.at = "generate", !.skipped = TRUE]
  /\ UNCHANGED <<stage, verification>> /\ CriticOnly

ScoreField(c) ==
  CASE c = "directly_stated" -> 100 [] c = "paraphrase" -> 85 [] c = "dropped_condition" -> 40
    [] c = "fabricated" -> 0 [] c = "legitimately_absent" -> 100

GroundingScore(cases) ==
  LET mean == (ScoreField(cases["requirement_text"]) + ScoreField(cases["trigger_event"])
               + ScoreField(cases["deadline_rule"]) + ScoreField(cases["responsible_role"])
               + ScoreField(cases["evidence_required"]) + ScoreField(cases["penalty_ref"])) \div 6
      Has(c) == \E f \in Fields : cases[f] = c
  IN Min({mean} \cup (IF Has("dropped_condition") THEN {60} ELSE {}) \cup (IF Has("fabricated") THEN {40} ELSE {}))

Verdict(score) == IF score >= 75 THEN "pass" ELSE IF score >= 50 THEN "borderline" ELSE "fail"

\* Conflicts with obligations that were not candidates are dropped, and all of
\* them if the lookup was skipped; a skipped lookup cannot pass.
Verify(cases, claimed) ==
  LET score == GroundingScore(cases)
  IN [grounding_score |-> score, cases |-> cases,
      conflicts |-> IF critic.skipped THEN {} ELSE claimed \cap critic.candidates,
      verdict |-> IF critic.skipped /\ Verdict(score) = "pass" THEN "borderline" ELSE Verdict(score)]

Judge ==
  /\ stage = "branches" /\ critic.at = "generate"
  /\ \/ \E cases \in Assessments : \E claimed \in SUBSET Obligations :
          /\ verification' = Verify(cases, claimed)
          /\ critic' = [critic EXCEPT !.at = "done"]
          /\ UNCHANGED <<stage, faults>>
     \/ /\ CallFails
        /\ IF critic.tries < MODEL_RETRIES THEN critic' = [critic EXCEPT !.tries = @ + 1] /\ UNCHANGED stage
           ELSE stage' = "failed" /\ UNCHANGED critic
        /\ UNCHANGED verification
  /\ CriticOnly

\* HARD_TIMEOUT_MS over the whole verification.
CriticTimeout ==
  /\ stage = "branches" /\ critic.at # "done"
  /\ CallFails /\ stage' = "failed"
  /\ UNCHANGED <<critic, verification>> /\ CriticOnly

(***************************************************************************)
(* Mapping.                                                                *)
(***************************************************************************)
MappingOnly == UNCHANGED <<graph, clause, stage, tries, context, draft, confidence, critic, verification, decision, rivals>>

Live(o) == graph[o] # None /\ graph[o].status = "committed" /\ graph[o].valid_to = None

\* Obligations of the circulars that the clause's circular supersedes.
ExplicitRows == {o \in clause.supersedes : Live(o)}

HeuristicRows == {o \in Obligations : Live(o) /\ graph[o].category = draft.category /\ graph[o].role = draft.role}

Overwrites(path, o) == [mapping EXCEPT !.overwriteAt = "done", !.overwrites = TRUE, !.matchPath = path, !.overwritten = o]

OverwriteUnnoticed == [mapping EXCEPT !.overwriteAt = "done", !.degraded = TRUE]  \* mutation: a failed lookup is no overwrite

\* A lookup that fails or exceeds its budget: an overwrite is assumed, of nobody
\* known.
OverwriteDegraded == [mapping EXCEPT !.overwriteAt = "done", !.overwrites = TRUE, !.degraded = TRUE]

FindExplicit ==
  /\ stage = "branches" /\ mapping.overwriteAt = "explicit"
  /\ \/ /\ IF ExplicitRows = {} THEN mapping' = [mapping EXCEPT !.overwriteAt = "heuristic"]
           ELSE \E o \in ExplicitRows : mapping' = Overwrites("explicit", o)
        /\ UNCHANGED faults
     \/ CallFails /\ mapping' = OverwriteDegraded
  /\ MappingOnly

FindHeuristic ==
  /\ stage = "branches" /\ mapping.overwriteAt = "heuristic"
  /\ \/ /\ IF HeuristicRows = {} THEN mapping' = [mapping EXCEPT !.overwriteAt = "done"]
           ELSE \E o \in HeuristicRows : mapping' = Overwrites("heuristic", o)
        /\ UNCHANGED faults
     \/ CallFails /\ mapping' = OverwriteDegraded
  /\ MappingOnly

TypeSeen == \E o \in There : graph[o].category = draft.category /\ graph[o].role = draft.role
                             /\ graph[o].status \in {"committed", "tier_a_committed"}

FindFirstSeen ==
  /\ stage = "branches" /\ ~mapping.firstSeenDone
  /\ \/ mapping' = [mapping EXCEPT !.firstSeenDone = TRUE, !.firstSeen = ~TypeSeen] /\ UNCHANGED faults
     \/ CallFails /\ mapping' = [mapping EXCEPT !.firstSeenDone = TRUE, !.firstSeenDegraded = TRUE]
  /\ MappingOnly

\* A deadline rule is the set of phrases in it; parseDeadlineRule looks for
\* them in this order.  A date that does not exist is None.
Phrase(rule, kind) == {p \in rule : p.kind = kind}

DeadlineHours(rule) ==
  LET One(kind) == CHOOSE p \in Phrase(rule, kind) : TRUE
      Has(kind) == Phrase(rule, kind) # {}
      HoursTo(day) == IF day = None THEN 720 ELSE Max({0, 24 * (day - ReferenceDay)})
  IN CASE Has("T+") -> IF One("T+").unit = "hour" THEN One("T+").n ELSE 24 * One("T+").n
       [] ~Has("T+") /\ Has("period") -> 24 * PeriodDays[One("period").n]
       [] ~Has("T+") /\ ~Has("period") /\ Has("by") -> HoursTo(One("by").n)
       [] ~Has("T+") /\ ~Has("period") /\ ~Has("by") -> IF Has("immediately") THEN 24 ELSE 720

\* The deadline for the score is not that of the SLA: at once is no days, and
\* none or an impossible date 90.
ProximityDays(rule) ==
  LET Has(kind) == Phrase(rule, kind) # {}
      dated == Has("T+") \/ Has("period")
  IN CASE ~dated /\ Has("by") /\ (\E p \in Phrase(rule, "by") : p.n = None) -> 90
       [] ~dated /\ ~Has("by") -> IF Has("immediately") THEN 0 ELSE 90
       [] OTHER -> (DeadlineHours(rule) + 23) \div 24

\* A penalty is what it mentions: keywords and amounts in rupees, one after a
\* currency sign and one before "lakh" or "crore".
LAKH == 100000
PenaltySeverity(p) ==
  LET amount == IF p.currency # None THEN p.currency ELSE p.bare
  IN IF p = None THEN 0
     ELSE IF "severe" \in p.words THEN 100
     ELSE IF "penalty" \in p.words
          THEN CASE amount = None -> 50
                 [] amount # None -> IF amount >= 100 * LAKH THEN 90 ELSE IF amount >= 10 * LAKH THEN 70
                                     ELSE IF amount >= LAKH THEN 50 ELSE 35
     ELSE IF "advisory" \in p.words THEN 20 ELSE 30

\* 0.5 of the severity, 0.3 of the nearness within 30 days, 0.3 for an overwrite.
RiskScore(severity, days, overwrites) ==
  Min({1000, 5 * severity + 10 * Max({0, 30 - days}) + (IF overwrites THEN 300 ELSE 0)})

Risk(m) == RiskScore(PenaltySeverity(draft.penalty), ProximityDays(draft.deadline), m.overwrites)

OwnerRoles == [stockbroker |-> "compliance_officer", trading_member |-> "compliance_officer",
               depository_participant |-> "compliance_officer", investment_adviser |-> "principal_officer",
               research_analyst |-> "principal_officer"]

OwnerRole(role) == IF role \in DOMAIN OwnerRoles THEN OwnerRoles[role] ELSE role

\* The first rule with a keyword of the category, or else of the text, names the
\* system.
TOUCHPOINT_RULES ==
  << [keywords |-> {"reporting", "disclosure", "filing"}, touchpoint |-> "reporting_portal"],
     [keywords |-> {"kyc", "client onboarding", "account opening"}, touchpoint |-> "onboarding"],
     [keywords |-> {"margin", "unpaid securities", "pledge", "risk management"}, touchpoint |-> "margin"],
     [keywords |-> {"grievance", "complaint", "scores"}, touchpoint |-> "grievances"],
     [keywords |-> {"audit", "inspection"}, touchpoint |-> "internal_audit"],
     [keywords |-> {"record", "retention", "maintenance"}, touchpoint |-> "documents"] >>

Matching(words) == {i \in DOMAIN TOUCHPOINT_RULES : TOUCHPOINT_RULES[i].keywords \cap words # {}}

SystemTouchpoint ==
  LET rules == IF Matching({draft.category}) # {} THEN Matching({draft.category}) ELSE Matching(draft.topics)
  IN IF rules = {} THEN "manual" ELSE TOUCHPOINT_RULES[Min(rules)].touchpoint

TaskDraft == [owner_role |-> OwnerRole(draft.role), system_touchpoint |-> SystemTouchpoint, sla_hours |-> DeadlineHours(draft.deadline), risk_score |-> Risk(mapping)]

(***************************************************************************)
(* Tier and plan.                                                          *)
(***************************************************************************)
BaseTier(risk, contradiction, conf, grounding, firstSeen) ==
  CASE contradiction \/ grounding < 50 -> "ESCALATE"
    [] ~(contradiction \/ grounding < 50) ->
         IF risk >= 750 THEN "C" ELSE IF risk >= 400 THEN "B"
         ELSE IF conf >= 85 /\ grounding >= 85 /\ ~firstSeen THEN "A" ELSE "B"

NoFloor(base, verdict, path) == base  \* mutation: the floors are not applied

Floored(base, verdict, path) == IF base = "A" /\ (verdict = "borderline" \/ path = "heuristic") THEN "B" ELSE base

Tier ==
  Floored(BaseTier(Risk(mapping), verification.conflicts # {} \/ verification.verdict = "fail", confidence,
                   verification.grounding_score, mapping.firstSeen),
          verification.verdict, mapping.matchPath)

StatusFor == [A |-> "tier_a_committed", B |-> "tier_b_review", C |-> "tier_c_review", ESCALATE |-> "escalated"]

\* The ids routeAndPreCommit knows of the categories: none.
CategoryIds == {}

\* buildPreReviewCommitPlan
PreReviewPlan(tier) ==
  [status |-> StatusFor[tier], task |-> TaskDraft,
   applies_to |-> draft.names \cap KnownNames \cap CategoryIds,
   supersedes |-> IF mapping.matchPath = "explicit" THEN mapping.overwritten ELSE None]

\* routeAndPreCommit, when both branches have answered.
Route ==
  /\ stage = "branches" /\ critic.at = "done" /\ mapping.overwriteAt = "done" /\ mapping.firstSeenDone
  /\ stage' = "done"
  /\ decision' = [tier |-> Tier, risk |-> Risk(mapping), plan |-> PreReviewPlan(Tier)]
  /\ UNCHANGED <<graph, clause, tries, context, draft, confidence, critic, verification, mapping, faults, rivals>>

PipelineNext ==
  \/ CheckClause \/ ListCategories \/ NoEmbedding \/ FindSimilar \/ FindRelated \/ Propose
  \/ LookupCandidates \/ Judge \/ CriticTimeout
  \/ FindExplicit \/ FindHeuristic \/ FindFirstSeen \/ Route
  \/ \E o \in Obligations : \E v \in StatesOf[o] : Change(o, v)

PipelineSpec == PipelineInit /\ [][PipelineNext]_pipelineVars

(***************************************************************************)
(* Properties.                                                             *)
(***************************************************************************)
\* Only an obligation whose every check was made and passed is committed without
\* a reviewer: grounded in each field, its conflicts looked up and none found,
\* of a type seen before, with no live obligation it may replace unnamed, and
\* not scored higher than its extraction claimed unless like clauses were found.
TierAIsEarned ==
  decision.tier = "A" =>
    /\ ~critic.skipped /\ verification.conflicts = {} /\ verification.verdict = "pass"
    /\ \A f \in Fields : verification.cases[f] \notin {"fabricated", "dropped_condition"}
    /\ ~mapping.firstSeenDegraded
    /\ mapping.overwrites => mapping.matchPath = "explicit" \/ mapping.degraded
    /\ mapping.matchPath = "explicit" <=> decision.plan.supersedes # None
    /\ confidence > draft.certainty => ~context.degraded /\ context.similar

\* What the critic doubts reaches two reviewers: an invented field or a conflict
\* with an obligation in force escalates, whatever the risk.
DoubtEscalates ==
  (verification.conflicts # {} \/ \E f \in Fields : verification.cases[f] = "fabricated") => decision.tier = "ESCALATE"

\* A lookup that failed does not lower the tier: the same answers of the models
\* with the graph's lookups as they would be with nothing found are routed no
\* lower.  (A failed overwrite lookup is known to hide a heuristic match.)
Rank == [A |-> 0, B |-> 1, C |-> 2, ESCALATE |-> 3]
FailureIsNotTrusted ==
  LET clean == [mapping EXCEPT !.overwrites = mapping.overwrites /\ ~mapping.degraded]
      tier == BaseTier(Risk(clean), verification.conflicts # {} \/ verification.verdict = "fail", confidence,
                       verification.grounding_score, mapping.firstSeen)
  IN Rank[decision.tier] >= Rank[tier]

\* However lookups and models fail and whatever other runs commit meanwhile.
RoutingIsCautious == stage = "done" => TierAIsEarned /\ DoubtEscalates /\ FailureIsNotTrusted

=============================================================================
