------------------------------ MODULE MCAgents ------------------------------
(***************************************************************************)
(* Small instances of the agents before and after the gate, and of the     *)
(* stores below them.  They share no state with one another (what another  *)
(* run of the workflow does to the graph is an action of each), so each    *)
(* behaviour of this module is one of a single component, the one in       *)
(* focus; the others stay in their initial state.  All but the graph      *)
(* store are extended, so that their properties and assumptions are        *)
(* checked under their own names.                                          *)
(***************************************************************************)
EXTENDS RegulatoryWatch, SlaMonitor, ObligationPipeline, ChangeAndDelta, Migrations, TLC

CONSTANTS a, b, x, y1, y2, t1, u1, u2, f1, s1, s2, o1, o2, o3, r1, r2, r3, r4, n1, k1, k2, l1, l2, l3

VARIABLES
  focus,
  nodes, edges, commitLog, tx, outages

storeVars == <<nodes, edges, commitLog, tx, outages>>

vars == <<focus, watchVars, slaVars, deltaVars, pipelineVars, storeVars, migrationVars>>

(***************************************************************************)
(* Two listings, one of which may be empty or hold two circulars with      *)
(* titles that are much alike, the other one of them or a stub; two cycles.*)
(***************************************************************************)
TwoListings == << {<<>>, <<a, b>>}, {<<b>>, <<x>>} >>
LikenessOfTitles(p, q) == IF p = q THEN 100 ELSE IF {p, q} = {a, b} THEN 90 ELSE 50
LikenessOfPhrases(p, q) == IF p = b /\ q = a THEN 80 ELSE 40

\* One task due after an hour, two uploads of the same content, a clock of two
\* hours; either one scanner beside the uploads, or two whose scans overlap and
\* whose appends are made again.
DueInAnHour == (t1 :> 1)

(***************************************************************************)
(* Four old paragraphs, one of sixty words and two with one number, with   *)
(* three obligations; five amendments of paragraphs, two new documents,    *)
(* and an event that is no amendment.                                      *)
(***************************************************************************)
OldClause(ref, text) == [id |-> ref, ref |-> ref, text |-> text]
Long == OldClause(r1, [i \in 1..60 |-> i])
Brief == OldClause(r2, <<61, 62, 63>>)
Twin == [id |-> n1, ref |-> r2, text |-> <<61, 66>>]
Line(ref, words) == [ref |-> ref, words |-> words]
NewClause(ref, lines, preamble, proposals) == [ref |-> ref, lines |-> lines, preamble |-> preamble, proposals |-> proposals]
Good == [excluded |-> FALSE, score |-> 80]
Bad == [excluded |-> TRUE, score |-> 40]
Paragraphs(refs, clauses) ==
  [changeType |-> "new", target |-> "c", supersedes |-> None, refs |-> refs, confidence |-> 85, clauses |-> clauses]
Document(clauses) ==
  [changeType |-> "amendment", target |-> None, supersedes |-> "c", refs |-> {}, confidence |-> 85, clauses |-> clauses]

DeltaEvents ==
  { Paragraphs({r1}, <<NewClause(n1, <<Line(None, <<90>> \o [i \in 1..59 |-> i])>>, 1, <<Good>>)>>),
    Paragraphs({r2}, <<NewClause(r2, <<Line(None, <<90, 61, 70>>)>>, 1, <<Bad, Good>>)>>),
    Paragraphs({r2, r3}, <<NewClause(n1, <<Line(r2, <<71>>), Line(None, <<72>>), Line(r3, <<73>>)>>, 0, <<Good>>)>>),
    Paragraphs({r2, r4}, <<NewClause(n1, <<Line(None, <<71>>), Line(r2, <<73>>)>>, 0, <<Bad>>)>>),
    Paragraphs({r1, r2}, <<NewClause(n1, <<Line(None, <<71, 72>>)>>, 0, <<Good>>), NewClause(n1, <<>>, 0, <<>>)>>),
    Document(<<NewClause(r1, <<Line(None, [i \in 1..40 |-> i])>>, 0, <<Good>>), NewClause(r4, <<Line(None, <<71, 72>>)>>, 0, <<Good>>)>>),
    Document(<<NewClause(r2, <<Line(None, <<61, 74>>)>>, 0, <<>>), NewClause(r4, <<Line(None, <<71, 72>>)>>, 0, <<Bad>>)>>),
    [Paragraphs({r2}, <<NewClause(r2, <<Line(None, <<71>>)>>, 0, <<>>)>>) EXCEPT !.target = None] }

FourClauses == {Long, Brief, Twin, OldClause(r3, <<64, 65>>)}
ClausesOfThree == (o1 :> Long) @@ (o2 :> Brief) @@ (o3 :> Twin)
TasksOfThree == (o1 :> t1) @@ (o2 :> None) @@ (o3 :> None)
TwoQuotes == {<<71, 72>>, <<61, 62, 63>>}

(***************************************************************************)
(* Five clauses, two obligations in the graph, four drafts and four        *)
(* assessments, two failures and one change by another run.                *)
(***************************************************************************)
Clause(size, embedded, neighbours, top, supersedes, penal) ==
  [size |-> size, embedded |-> embedded, neighbours |-> neighbours, top |-> top, supersedes |-> supersedes,
   penaltyLanguage |-> penal, categories |-> {"broker"}, given |-> {}, effective |-> 5]
Version(from, status, to) ==
  [clause |-> from, category |-> "kyc", role |-> "stockbroker", trigger |-> "t", status |-> status, valid_from |-> 1, valid_to |-> to]
Draft(category, role, deadline, penalty, certainty, hedged, names) ==
  [category |-> category, role |-> role, trigger |-> "t", deadline |-> deadline, penalty |-> penalty,
   certainty |-> certainty, hedged |-> hedged, names |-> names, evidence |-> "report", topics |-> {"pledge"}]
Penalty(words, currency, bare) == [words |-> words, currency |-> currency, bare |-> bare]
AssessedDeadline(case) == [f \in Fields |-> IF f = "deadline_rule" THEN case ELSE "directly_stated"]
Overlap(t, u) == t = u

FiveClauses ==
  { Clause("short", TRUE, {}, 0, {}, FALSE), Clause("long", TRUE, {}, 0, {}, FALSE), Clause("fits", FALSE, {}, 0, {}, TRUE),
    Clause("fits", TRUE, {k1}, 92, {o1}, FALSE), Clause("fits", TRUE, {}, 0, {}, FALSE) }
StatesOfTwo ==
  (o1 :> {None, Version(k1, "committed", None), Version(k1, "committed", 4)})
  @@ (o2 :> {None, Version(k2, "tier_a_committed", None), Version(k2, "rejected", None)})
FourDrafts ==
  { Draft("kyc", "stockbroker", {}, None, 92, FALSE, {"broker"}),
    Draft("kyc", "stockbroker", {[kind |-> "T+", n |-> 10, unit |-> "day"], [kind |-> "period", n |-> "monthly"]},
          Penalty({"penalty"}, None, 500000), 80, FALSE, {"broker"}),
    Draft("kyc", "unspecified", {[kind |-> "immediately"]}, Penalty({"severe"}, None, None), 95, TRUE, {"fund"}),
    Draft("audit", "stockbroker", {[kind |-> "by", n |-> 45]}, Penalty({"advisory"}, 20000000, None), 90, FALSE, {}) }
FourAssessments ==
  { AssessedDeadline("directly_stated"), [AssessedDeadline("fabricated") EXCEPT !["penalty_ref"] = "legitimately_absent"],
    AssessedDeadline("dropped_condition"), [f \in Fields |-> "paraphrase"] }

(***************************************************************************)
(* Three calls of the store at a time, an outage, a retry: commits of the  *)
(* plans the workflow and the seeds submit, and a repository's supersede.  *)
(***************************************************************************)
StoredNode(label, id, key, owner, status_) ==
  [label |-> label, id |-> id, key |-> key, owner |-> owner, from |-> 1, to |-> None, status |-> status_]
StoredObligation(id, status_) == StoredNode("Obligation", id, None, None, status_)
StoredTask(id, o) == StoredNode("ProcessTask", id, None, o, None)
Edge(type, from, to) == [type |-> type, from |-> from, to |-> to]
CommitPlan(id, ns, closes, transitions, finalizes, es) ==
  [kind |-> "commit", proposal |-> id, nodes |-> ns, supersessions |-> closes, transitions |-> transitions,
   finalizes |-> finalizes, edges |-> es, statement |-> None]
PreReview(o) ==
  CommitPlan("pre", <<StoredObligation(o, "tier_c_review"), StoredTask("t3", o)>>, <<>>, <<>>, <<>>,
       <<Edge("DERIVED_FROM", o, "k0"), Edge("MAPPED_TO", o, "t3"), Edge("SUPERSEDES", o, "x1")>>)
Approve(o, over) ==
  CommitPlan("approve " \o o, <<>>, <<>>, <<[id |-> o, status |-> "committed"]>>,
       IF over THEN <<[old |-> "x1", new |-> o, date |-> 2]>> ELSE <<>>, <<>>)
Reviewed == CommitPlan("review", <<StoredNode("HumanReview", "h1", None, "o1", None)>>, <<>>, <<>>, <<>>, <<Edge("REVIEWED_BY", "o1", "h1")>>)
Amend ==
  CommitPlan("amend", <<StoredObligation("o4", "committed"), StoredNode("Circular", "c1", "s1", None, None),
                  StoredNode("Clause", "k1", None, "c1", None), StoredNode("IntermediaryCategory", "g1", "broker", None, None)>>,
       <<[kind |-> "Circular", old |-> "c0", date |-> 2], [kind |-> "Obligation", old |-> "x1", date |-> 2]>>, <<>>, <<>>,
       <<Edge("PART_OF", "k1", "c1"), Edge("SUPERSEDES", "c1", "c0"), Edge("SUPERSEDES", "o4", "x1"), Edge("APPLIES_TO", "o4", "g1")>>)
Again ==
  CommitPlan("again", <<StoredNode("Circular", "c2", "s0", None, None), StoredNode("Clause", "k2", None, "c2", None)>>, <<>>, <<>>, <<>>,
       <<Edge("PART_OF", "k2", "c2")>>)
Category ==
  CommitPlan("category", <<StoredNode("IntermediaryCategory", "g2", "broker", None, None)>>, <<>>, <<>>, <<>>, <<Edge("APPLIES_TO", "x1", "g2")>>)
Evidence == CommitPlan("evidence", <<StoredNode("EvidenceArtifact", "e1", None, None, None)>>, <<>>, <<>>, <<>>, <<Edge("EVIDENCED_BY", "t1", "e1")>>)
Malformed == CommitPlan("draft", <<StoredObligation("o5", "draft")>>, <<>>, <<>>, <<>>, <<>>)
Supersede ==
  [CommitPlan(None, <<>>, <<>>, <<>>, <<>>, <<>>) EXCEPT !.kind = "supersede",
     !.statement = [op |-> "supersede", label |-> "Obligation", old |-> "x1", node |-> StoredObligation("o6", "committed"), date |-> 2]]
Three(p, q, r) == (l1 :> p) @@ (l2 :> q) @@ (l3 :> r)

Graph == INSTANCE GraphStore WITH
  Calls <- {l1, l2, l3}, MaxDate <- 2, MaxRetries <- 1, MaxFaults <- 1,
  PlanChoices <- { Three(Approve("o1", TRUE), Approve("o1", TRUE), Approve("o2", TRUE)),
                   Three(PreReview("o3"), PreReview("o3"), Supersede),
                   Three(Approve("o1", FALSE), Approve("o1", FALSE), Reviewed),
                   Three(Amend, Approve("o1", TRUE), Category),
                   Three(Again, Malformed, Evidence),
                   Three(Reviewed, Reviewed, PreReview("o3")) },
  InitialNodes <- { StoredNode("Circular", "c0", "s0", None, None), StoredNode("Clause", "k0", None, "c0", None),
                    StoredObligation("x1", "committed"), StoredTask("t1", "x1"),
                    StoredObligation("o1", "tier_c_review"), StoredObligation("o2", "tier_c_review") }

\* What is in focus; the SLA monitor twice, with one scanner and with two.
Agents == {"watch", "sla", "scans", "delta", "pipeline", "graph", "migrations"}

\* What an agent that is out of focus starts with is fixed where it has a choice.
Init ==
  /\ focus \in Agents
  /\ WatchInit /\ (focus # "watch" => site = <<<<>>, <<b>>>> /\ ingested = {})
  /\ SlaInit
  /\ DeltaInit /\ (focus # "delta" => event.changeType = "new" /\ event.target = None /\ ~targetLive /\ liveIn = {})
  /\ PipelineInit /\ (focus # "pipeline" => clause.size = "short" /\ graph = [o \in {o1, o2} |-> None])
  /\ Graph!Init /\ (focus # "graph" => tx[l1].plan = Again)
  /\ MigrationsInit /\ (focus # "migrations" => store = "graph")

WatchStep ==
  /\ focus = "watch" /\ WatchNext
  /\ UNCHANGED <<focus, slaVars, deltaVars, pipelineVars, storeVars, migrationVars>>

\* No more SLA entries than three of each kind.
MaxEntries == 6
SlaStep ==
  /\ \/ focus = "sla" /\ SlaNext /\ scan'[s2] = NoScan /\ scan'[s1].lost = 0
     \/ focus = "scans" /\ UNCHANGED upload /\ SlaNext /\ Len(entries') <= MaxEntries
  /\ UNCHANGED <<focus, watchVars, deltaVars, pipelineVars, storeVars, migrationVars>>
DeltaStep ==
  /\ focus = "delta" /\ DeltaNext
  /\ UNCHANGED <<focus, watchVars, slaVars, pipelineVars, storeVars, migrationVars>>
PipelineStep ==
  /\ focus = "pipeline" /\ PipelineNext
  /\ UNCHANGED <<focus, watchVars, slaVars, deltaVars, storeVars, migrationVars>>
GraphStep ==
  /\ focus = "graph" /\ Graph!Next
  /\ UNCHANGED <<focus, watchVars, slaVars, deltaVars, pipelineVars, migrationVars>>
MigrationsStep ==
  /\ focus = "migrations" /\ MigrationsNext
  /\ UNCHANGED <<focus, watchVars, slaVars, deltaVars, pipelineVars, storeVars>>

Next ==
  \/ WatchStep
  \/ SlaStep
  \/ DeltaStep
  \/ PipelineStep
  \/ GraphStep
  \/ MigrationsStep

Spec == Init /\ [][Next]_vars

Symmetric == Permutations({u1, u2}) \cup Permutations({y1, y2})

\* The component in focus keeps its types; the others are as they started.
TypeOK ==
  CASE focus = "watch" -> WatchTypeOK
    [] focus \in {"sla", "scans"} -> SlaTypeOK
    [] focus = "delta" -> DeltaTypeOK
    [] focus = "pipeline" -> PipelineTypeOK
    [] focus = "graph" -> Graph!TypeOK
    [] focus = "migrations" -> MigrationsTypeOK

\* Lineages do not fork and edges join nodes that exist (GraphStore).
GraphIsSound == focus = "graph" => Graph!GraphIsSound
\* A commit is all of its plan, on what is committed then (GraphStore).
CommitsAreSerial == Graph!CommitsAreSerial

=============================================================================
