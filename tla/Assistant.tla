------------------------------ MODULE Assistant ------------------------------
(***************************************************************************)
(* The conversational assistant: a question is classified by a model,      *)
(* answered from the graph by a fixed query (several reads, one after      *)
(* another, while reviews go on) or by vector search, and put into words   *)
(* by a second model.  What the models return is any value; what is kept   *)
(* of it is the code's.                                                    *)
(*                                                                         *)
(* A node is <<label, obligation, number>>; each obligation has a clause,  *)
(* a circular and a task, and its reviews are numbered.  The rate limiter  *)
(* shares no state with a turn and has a module of its own.                *)
(***************************************************************************)
EXTENDS RateLimit, NoValue, SequencesExt

CONSTANTS
  ObligationIds,
  Turns,           \* questions asked
  Classifications, \* what the classifier may return
  PageSize,        \* rows of a search (DEFAULT_PAGE_SIZE)
  MaxFailures      \* failed calls of a model or of the graph

MAX_ATTEMPTS == 2

HistoryIntents == {"review_history_by_obligation", "review_history_by_circular", "review_history_by_reviewer"}

TemplateIntents ==
  {"obligations_by_category_and_date_range", "obligation_by_id_with_lineage", "circular_by_id_or_title",
   "obligations_by_status", "reviews_by_category_and_date_range"}

ASSISTANT_INTENTS == TemplateIntents \cup HistoryIntents \cup {"semantic_lookup", "unsupported"}

\* What was understood of a question: how sure the classifier is, whether slots
\* the intent needs are missing or would be refused, and what the slots match.
QuestionClassification ==
  [intent: ASSISTANT_INTENTS, confident: BOOLEAN, missing: BOOLEAN, valid: BOOLEAN,
   about: SUBSET ObligationIds, numbers: SUBSET Nat]

Dual == {"tier_c_review", "escalated"}

\* Obligation.status; "committed" stands for any decision.
Standings == {"tier_a_committed", "tier_b_review", "committed"} \cup Dual

TurnAnswers == {"400", "429", "500", "503", "refusal", "clarification", "no data", "unavailable", "answer"}

ASSUME AssistantAssumption ==
  /\ IsFiniteSet(ObligationIds) /\ PageSize \in Nat /\ MaxFailures \in Nat
  /\ Classifications \subseteq QuestionClassification
  /\ None \notin Standings \cup TurnAnswers

VARIABLES
  standing, \* Obligation.status, None while it is not in the graph
  signed,   \* the number of HumanReview nodes of an obligation
  indexed,  \* the vector index exists
  turn,
  failed

assistantVars == <<standing, signed, indexed, turn, failed>>

Node(label, o) == <<label, o, 0>>

ReviewNode(o, n) == <<"HumanReview", o, n>>

NoContext == [circulars |-> {}, clauses |-> {}, obligations |-> {}, tasks |-> {}, reviews |-> {}]

NoTurn ==
  [at |-> "idle", tries |-> 0, class |-> None, context |-> NoContext, queue |-> {},
   miss |-> FALSE, answer |-> None, cites |-> {}]

AssistInit ==
  /\ standing = [o \in ObligationIds |-> None]
  /\ signed = [o \in ObligationIds |-> 0]
  /\ indexed \in BOOLEAN
  /\ turn = [t \in Turns |-> NoTurn]
  /\ failed = 0

(***************************************************************************)
(* Meanwhile: obligations are proposed, reviewed and decided.              *)
(***************************************************************************)
OthersIdle == UNCHANGED <<indexed, turn, failed>>

Propose(o) ==
  /\ standing[o] = None
  /\ \E status \in {"tier_a_committed", "tier_b_review"} \cup Dual : standing' = [standing EXCEPT ![o] = status]
  /\ UNCHANGED signed /\ OthersIdle

Needed(o) == CASE standing[o] \in Dual -> 2 [] standing[o] = "tier_b_review" -> 1 [] OTHER -> 0

\* A review is in the graph as soon as it is submitted.
SignOff(o) ==
  /\ signed[o] < Needed(o)
  /\ signed' = [signed EXCEPT ![o] = @ + 1]
  /\ UNCHANGED standing /\ OthersIdle

Decide(o) ==
  /\ Needed(o) > 0 /\ signed[o] = Needed(o)
  /\ standing' = [standing EXCEPT ![o] = "committed"]
  /\ UNCHANGED signed /\ OthersIdle

(***************************************************************************)
(* Reads of the graph.                                                     *)
(***************************************************************************)
InGraph == {o \in ObligationIds : standing[o] # None}

GuardsTierCOnly(o) == standing[o] = "tier_c_review"  \* mutation: an escalated obligation is left out

\* FR-11a, TIER_C_INDEPENDENCE_GUARD: the reviews of an obligation under dual
\* review (tier "C" on the node for both) are left out.
Guarded(o) == standing[o] \in Dual

ReviewsOf(os) == UNION {{ReviewNode(o, n) : n \in 1..signed[o]} : o \in os}

UnguardedReviews(o) == IF Guarded(o) THEN {} ELSE ReviewsOf({o})

ObligationFacts(o, complete) == [id |-> o, status |-> standing[o], complete |-> complete]

Lineage(os) == [NoContext EXCEPT !.circulars = {Node("Circular", o) : o \in os}, !.clauses = {Node("Clause", o) : o \in os}]

\* The contexts of the five templates; os are the obligations the slots match.
RunTemplate(intent, os) ==
  LET found == os \cap InGraph
      facts == {ObligationFacts(o, TRUE) : o \in found}
      reviewed == {o \in found : UnguardedReviews(o) # {}}
  IN CASE intent \in {"obligations_by_category_and_date_range", "obligations_by_status"} ->
            [Lineage(found) EXCEPT !.obligations = facts]
       [] intent = "obligation_by_id_with_lineage" ->
            [Lineage(found) EXCEPT !.obligations = facts, !.tasks = {Node("ProcessTask", o) : o \in found},
                                   !.reviews = UNION {UnguardedReviews(o) : o \in found}]
       [] intent = "circular_by_id_or_title" -> [Lineage(os) EXCEPT !.obligations = facts]
       [] intent = "reviews_by_category_and_date_range" ->
            [Lineage(reviewed) EXCEPT !.obligations = {ObligationFacts(o, TRUE) : o \in reviewed},
                                      !.reviews = UNION {UnguardedReviews(o) : o \in reviewed}]

\* Rows of AuditQueryService: findByObligationId returns the reviews of the
\* obligation, search a page of all reviews.  The filters of search and the guard
\* of both stand in the WHERE of an OPTIONAL MATCH and exclude no row.
AuditRows(class) ==
  IF class.intent = "review_history_by_obligation" THEN {ReviewsOf(class.about)}
  ELSE {rows \in SUBSET ReviewsOf(ObligationIds) : Cardinality(rows) =
          (IF Cardinality(ReviewsOf(ObligationIds)) < PageSize THEN Cardinality(ReviewsOf(ObligationIds)) ELSE PageSize)}

\* What that WHERE does decide is whether a row comes with its tasks.
HasTasks(class, r) == ~Guarded(r[2]) /\ (class.intent # "review_history_by_obligation" => r[2] \in class.about /\ r[3] \in class.numbers)

\* The fields a row lacks are left empty until the obligation is read.
BaseContextFromAuditRows(class, rows) ==
  LET os == {r[2] : r \in rows}
  IN [Lineage(os) EXCEPT !.obligations = {ObligationFacts(o, FALSE) : o \in os},
                         !.tasks = {Node("ProcessTask", r[2]) : r \in {row \in rows : HasTasks(class, row)}},
                         !.reviews = rows]

\* What comes in later replaces what has the same id.
Merge(base, incoming) ==
  [circulars |-> base.circulars \cup incoming.circulars,
   clauses |-> base.clauses \cup incoming.clauses,
   obligations |-> {b \in base.obligations : ~\E i \in incoming.obligations : i.id = b.id} \cup incoming.obligations,
   tasks |-> base.tasks \cup incoming.tasks,
   reviews |-> base.reviews \cup incoming.reviews]

IsEmpty(context) == context = NoContext

Ids(context) ==
  context.circulars \cup context.clauses \cup {Node("Obligation", f.id) : f \in context.obligations}
  \cup context.tasks \cup context.reviews

(***************************************************************************)
(* A turn.                                                                 *)
(***************************************************************************)
GraphIdle == UNCHANGED <<standing, signed, indexed>>

Done(t, answer, cites) ==
  turn' = [turn EXCEPT ![t].at = "done", ![t].answer = answer, ![t].cites = cites, ![t].queue = {}]

Failing == failed < MaxFailures /\ failed' = failed + 1

\* The rate limiter may turn a question away; one it lets through may still be
\* no question, and the read-only driver may have no credentials.
AskQuestion(t) ==
  /\ turn[t].at = "idle"
  /\ \/ turn' = [turn EXCEPT ![t].at = "classify"] /\ UNCHANGED failed
     \/ (\E answer \in {"429", "400"} : Done(t, answer, {})) /\ UNCHANGED failed
     \/ Failing /\ Done(t, "503", {})
  /\ GraphIdle

Continue(t, record) == turn' = [turn EXCEPT ![t] = record]

Fallback == [intent |-> "semantic_lookup", confident |-> TRUE, missing |-> FALSE, valid |-> TRUE, about |-> {}, numbers |-> {}]

Classified(t, output) ==
  LET class == IF ~output.confident /\ output.intent # "unsupported" THEN Fallback ELSE output
      next == [turn[t] EXCEPT !.class = class, !.tries = 0]
  IN CASE class.intent = "unsupported" -> Continue(t, [next EXCEPT !.at = "done", !.answer = "refusal"])
       [] class.intent = "semantic_lookup" -> Continue(t, [next EXCEPT !.at = "vector"])
       [] OTHER -> Continue(t, [next EXCEPT !.at = "read"])

\* A call of a model: a failure is retried once, and so is an invalid result.
LastTry(t) == turn[t].tries = MAX_ATTEMPTS - 1
TryAgain(t) == turn' = [turn EXCEPT ![t].tries = @ + 1]

Classify(t) ==
  /\ turn[t].at = "classify"
  /\ \/ (\E output \in Classifications : Classified(t, output)) /\ UNCHANGED failed
     \/ Failing /\ (IF LastTry(t) THEN Done(t, "503", {}) ELSE TryAgain(t))
     \/ Failing /\ (IF LastTry(t) THEN Classified(t, Fallback) ELSE TryAgain(t))
  /\ GraphIdle

\* Where a turn goes with what the structured query returned.
Retrieved(t, context) ==
  IF IsEmpty(context) THEN [turn[t] EXCEPT !.at = "vector", !.miss = TRUE]
  ELSE [turn[t] EXCEPT !.at = IF turn[t].class.intent \in HistoryIntents THEN "enrich" ELSE "synthesize",
                       !.context = context,
                       !.queue = IF turn[t].class.intent \in HistoryIntents THEN {f.id : f \in context.obligations} ELSE {}]

\* Parameters that are missing, or that the template refuses, are asked for.
RetrieveStructured(t) ==
  LET class == turn[t].class
      clarify == class.missing \/ (~class.valid /\ class.intent \notin HistoryIntents)
  IN /\ turn[t].at = "read"
     /\ \/ clarify /\ Done(t, "clarification", {}) /\ UNCHANGED failed
        \/ /\ ~clarify /\ class.intent \notin HistoryIntents
           /\ Continue(t, Retrieved(t, RunTemplate(class.intent, class.about)))
           /\ UNCHANGED failed
        \/ /\ ~clarify /\ class.intent \in HistoryIntents
           /\ \E rows \in AuditRows(class) : Continue(t, Retrieved(t, BaseContextFromAuditRows(class, rows)))
           /\ UNCHANGED failed
        \/ ~clarify /\ Failing /\ \E answer \in {"503", "500"} : Done(t, answer, {})
     /\ GraphIdle

KeepsWhatCameIn(base, incoming) == Merge(base, incoming)  \* mutation: the reviews of the later read are kept too

\* The obligation as it is now, with the reviews of the audit rows only.
Enriched(base, incoming) == [Merge(base, incoming) EXCEPT !.reviews = base.reviews]

\* enrichObligationLineage: a read that fails is left out.
Enrich(t) ==
  /\ turn[t].at = "enrich"
  /\ \E o \in turn[t].queue :
       LET rest == turn[t].queue \ {o}
           next == [turn[t] EXCEPT !.queue = rest, !.at = IF rest = {} THEN "synthesize" ELSE "enrich"]
       IN \/ /\ Continue(t, [next EXCEPT !.context = Enriched(@, RunTemplate("obligation_by_id_with_lineage", {o}))])
             /\ UNCHANGED failed
          \/ Continue(t, next) /\ Failing
  /\ GraphIdle

\* Clauses are in the graph before their obligations; a search returns any of them.
RetrieveVector(t) ==
  /\ turn[t].at = "vector"
  /\ \/ ~indexed /\ Done(t, "unavailable", {}) /\ UNCHANGED failed
     \/ /\ indexed
        /\ \E os \in SUBSET ObligationIds :
             IF os = {} THEN Done(t, "no data", {})
             ELSE Continue(t, [turn[t] EXCEPT !.at = "synthesize",
                                              !.context = Merge(turn[t].context, [NoContext EXCEPT !.clauses = {Node("Clause", o) : o \in os}])])
        /\ UNCHANGED failed
     \/ Failing /\ \E answer \in {"503", "500"} : Done(t, answer, {})
  /\ GraphIdle

\* Ids the model may cite: nothing, what it was shown, or more than that.
CitedChoices(t) ==
  {{}, Ids(turn[t].context),
   {ReviewNode(o, n) : o \in ObligationIds, n \in 1..2} \cup {Node("Clause", o) : o \in ObligationIds} \cup {<<"invented", None, 0>>}}

CitesAnything(cited, context) == cited  \* mutation: the ids are not looked up

BuildValidatedCitations(cited, context) == cited \cap Ids(context)

\* buildTemplateOnlyFallback: the plain listing cites all it lists.
Listing(context) == Ids(context)

Synthesize(t) ==
  LET context == turn[t].context
  IN /\ turn[t].at = "synthesize"
     /\ \/ /\ \E cited \in CitedChoices(t) : Done(t, "answer", BuildValidatedCitations(cited, context))
           /\ UNCHANGED failed
        \/ Done(t, "no data", {}) /\ UNCHANGED failed
        \/ Failing /\ (IF LastTry(t) THEN Done(t, "503", {}) ELSE TryAgain(t))
        \/ Failing /\ (IF LastTry(t) THEN Done(t, "answer", BuildValidatedCitations(Listing(context), context)) ELSE TryAgain(t))
     /\ GraphIdle

AssistNext ==
  \/ \E o \in ObligationIds : Propose(o) \/ SignOff(o) \/ Decide(o)
  \/ \E t \in Turns :
       AskQuestion(t) \/ Classify(t) \/ RetrieveStructured(t) \/ Enrich(t) \/ RetrieveVector(t) \/ Synthesize(t)

AssistSpec == AssistInit /\ [][AssistNext]_assistantVars

(***************************************************************************)
(* Properties.                                                             *)
(***************************************************************************)
AssistTypeOK ==
  /\ \A o \in ObligationIds : standing[o] \in Standings \cup {None}
  /\ \A o \in ObligationIds : signed[o] \in 0..2
  /\ indexed \in BOOLEAN /\ failed \in 0..MaxFailures
  /\ \A t \in Turns : /\ turn[t].at \in {"idle", "classify", "read", "enrich", "vector", "synthesize", "done"}
                      /\ turn[t].answer \in TurnAnswers \cup {None}
                      /\ turn[t].queue \subseteq ObligationIds

\* A question a template answers is never answered from the first of two reviews
\* before the obligation is decided, neither in the facts a model is given nor in
\* what is cited.  (The intents that read review histories are not so careful.)
FirstReviewIsHidden ==
  \A t \in Turns : turn[t].class # None /\ turn[t].class.intent \notin HistoryIntents =>
    \A r \in turn[t].context.reviews \cup turn[t].cites : r[1] = "HumanReview" => standing[r[2]] \notin Dual

\* The reviews among the facts are of the obligations asked for, or one page of a
\* search, although the obligations they belong to are read again later and with
\* them their other reviews; each comes with its obligation.
FactsAnswerTheQuestion ==
  \A t \in Turns : turn[t].context.reviews # {} =>
    /\ IF turn[t].class.intent \in HistoryIntents \ {"review_history_by_obligation"}
       THEN Cardinality(turn[t].context.reviews) <= PageSize
       ELSE \A r \in turn[t].context.reviews : r[2] \in turn[t].class.about
    /\ \A r \in turn[t].context.reviews : \E f \in turn[t].context.obligations : f.id = r[2]

\* An answer cites nodes that were read for it, and whatever is not an answer
\* from facts cites none.
CitationsAreReal ==
  \A t \in Turns :
    /\ turn[t].cites \subseteq Ids(turn[t].context)
    /\ turn[t].answer = "answer" => ~IsEmpty(turn[t].context)
    /\ turn[t].answer # "answer" => turn[t].cites = {}

\* An answer rests on what the graph held and shows no first review, and a
\* question is turned away only for those asked before it.
AssistantIsGrounded == FirstReviewIsHidden /\ FactsAnswerTheQuestion /\ CitationsAreReal /\ RateIsFair

=============================================================================
