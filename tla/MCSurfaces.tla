----------------------------- MODULE MCSurfaces -----------------------------
(***************************************************************************)
(* Small instances of the components around the gate that the people who   *)
(* review and audit work with.  The components share no state with one     *)
(* another, so each behaviour of this module is one of a single component, *)
(* the one in focus; the others stay in their initial state.  The ones     *)
(* that are proved about are extended, so that their properties and        *)
(* assumptions are checked under their own names.                          *)
(***************************************************************************)
EXTENDS SlackGateway, SlaReminders, ConsoleGateway, ReviewQueue, ExportJobs, Assistant, TLC

CONSTANTS oC, o1, o2, o3, r1, r2, k1, k2, y1, y2, t1, t2, j1, j2, q1, i1, w1, w2

VARIABLES
  focus,
  obligation, trail, reader, undisturbed

registerVars == <<obligation, trail, reader, undisturbed>>

vars == <<focus, slackVars, remVars, consoleVars, queueVars, exportVars, assistantVars, rateVars, registerVars>>

\* Each reviewer has a tab of the console.
OneTabEach == (t1 :> r1) @@ (t2 :> r2)

\* The order of the queue: one item is riskier than two of one score.
ByRisk == (o1 :> 1) @@ (o2 :> 2) @@ (o3 :> 2)

\* What the classifier returns: among it what it may not answer, is not sure of
\* or lacks a slot for, and slots the templates refuse.
Class(intent, confident, missing, valid, about, numbers) ==
  [intent |-> intent, confident |-> confident, missing |-> missing, valid |-> valid, about |-> about, numbers |-> numbers]
ClassifierOutputs ==
  { Class("unsupported", FALSE, FALSE, TRUE, {}, {}), Class("semantic_lookup", TRUE, FALSE, TRUE, {}, {}),
    Class("obligations_by_status", FALSE, FALSE, TRUE, {o1}, {}),
    Class("obligations_by_status", TRUE, TRUE, TRUE, {o1}, {}),
    Class("obligation_by_id_with_lineage", TRUE, FALSE, FALSE, {o1}, {}),
    Class("obligation_by_id_with_lineage", TRUE, FALSE, TRUE, {o1}, {}),
    Class("circular_by_id_or_title", TRUE, FALSE, TRUE, {o1, o2}, {}),
    Class("reviews_by_category_and_date_range", TRUE, FALSE, TRUE, {o1, o2}, {}),
    Class("review_history_by_obligation", TRUE, FALSE, TRUE, {o1}, {1, 2}),
    Class("review_history_by_reviewer", TRUE, FALSE, TRUE, {o1, o2}, {1}) }

\* Two obligations, one with two tasks; three registers and two searches; pages
\* of two reviews and of four lines.
RegisterRequest(asOf, category, tier) == [asOf |-> asOf, category |-> category, tier |-> tier]
Audit == INSTANCE AuditRegister WITH
  Register <- <<o1, o2>>, TasksOf <- (o1 :> {w1, w2}) @@ (o2 :> {}), CategoryOf <- (o1 :> "kyc") @@ (o2 :> "audit"),
  Requests <- {RegisterRequest(1, None, None), RegisterRequest(2, None, "B"), RegisterRequest(2, "kyc", None)},
  Filters <- {[tier |-> None, page |-> 1], [tier |-> "C", page |-> 2]}, PageSize <- 2, LinesPerPage <- 4, Today <- 2

Components == {"slack", "reminders", "console", "queue", "exports", "assistant", "limiter", "audit"}

\* What a component that is out of focus starts with is fixed where it has a choice.
Init ==
  /\ focus \in Components
  /\ SlackInit /\ (focus # "slack" => runTier = [o \in {oC} |-> "B"])
  /\ ReminderInit
  /\ ConsoleInit /\ (focus # "console" => itemTier = [o \in {oC} |-> "B"])
  /\ QueueInit /\ (focus # "queue" => status = [o \in {o1, o2, o3} |-> "proposed"])
  /\ ExportInit
  /\ AssistInit /\ (focus # "assistant" => indexed)
  /\ RateInit
  /\ Audit!Init

SlackStep ==
  /\ focus = "slack" /\ SlackNext
  /\ UNCHANGED <<focus, remVars, consoleVars, queueVars, exportVars, assistantVars, rateVars, registerVars>>
RemindersStep ==
  /\ focus = "reminders" /\ ReminderNext
  /\ UNCHANGED <<focus, slackVars, consoleVars, queueVars, exportVars, assistantVars, rateVars, registerVars>>
ConsoleStep ==
  /\ focus = "console" /\ ConsoleNext
  /\ UNCHANGED <<focus, slackVars, remVars, queueVars, exportVars, assistantVars, rateVars, registerVars>>
QueueStep ==
  /\ focus = "queue" /\ QueueNext
  /\ UNCHANGED <<focus, slackVars, remVars, consoleVars, exportVars, assistantVars, rateVars, registerVars>>
ExportsStep ==
  /\ focus = "exports" /\ ExportNext
  /\ UNCHANGED <<focus, slackVars, remVars, consoleVars, queueVars, assistantVars, rateVars, registerVars>>
AssistantStep ==
  /\ focus = "assistant" /\ AssistNext
  /\ UNCHANGED <<focus, slackVars, remVars, consoleVars, queueVars, exportVars, rateVars, registerVars>>
LimiterStep ==
  /\ focus = "limiter" /\ RateNext
  /\ UNCHANGED <<focus, slackVars, remVars, consoleVars, queueVars, exportVars, assistantVars, registerVars>>
AuditStep ==
  /\ focus = "audit" /\ Audit!Next
  /\ UNCHANGED <<focus, slackVars, remVars, consoleVars, queueVars, exportVars, assistantVars, rateVars>>

Next ==
  \/ SlackStep
  \/ RemindersStep
  \/ ConsoleStep
  \/ QueueStep
  \/ ExportsStep
  \/ AssistantStep
  \/ LimiterStep
  \/ AuditStep

Spec == Init /\ [][Next]_vars

\* The reviewers change places together with their tabs.
Symmetric ==
  {(r1 :> r2) @@ (r2 :> r1) @@ (t1 :> t2) @@ (t2 :> t1)} \cup Permutations({k1, k2})

\* The component in focus keeps its types; the others are as they started.
TypeOK ==
  CASE focus = "slack" -> SlackTypeOK
    [] focus = "reminders" -> ReminderTypeOK
    [] focus = "console" -> ConsoleTypeOK
    [] focus = "queue" -> QueueTypeOK
    [] focus = "exports" -> ExportTypeOK
    [] focus = "assistant" -> AssistTypeOK
    [] focus = "limiter" -> RateTypeOK
    [] focus = "audit" -> Audit!TypeOK

\* A register lists what was read, and no first review (AuditRegister).
RegisterIsTrue == focus = "audit" => Audit!RegisterIsTrue
\* A search shows no first review of an obligation that is not decided
\* (AuditRegister).
SearchIsGuarded == focus = "audit" => Audit!SearchIsGuarded

=============================================================================
