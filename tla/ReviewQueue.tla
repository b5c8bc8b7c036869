---------------------------- MODULE ReviewQueue ----------------------------
(***************************************************************************)
(* The queue of the web console (GET /api/console/queue): a reviewer walks *)
(* through pages of the obligations in review, ordered by risk, while      *)
(* others decide and new ones arrive.  A page is read with SKIP and LIMIT, *)
(* then the review gate is asked for the items of the page, then the items *)
(* that are not for this reviewer are left out.  Items of one risk score   *)
(* come in an order that may be another on the next page.                  *)
(***************************************************************************)
EXTENDS Naturals, FiniteSets, Functions, NoValue

CONSTANTS
  Items,
  Ranking,     \* the rank of their tasks' risk scores, 1 for the highest
  MAX_LIMIT,
  DEFAULT_LIMIT,
  MaxPages,    \* pages of one walk
  MaxChanges   \* obligations decided or proposed meanwhile

ASSUME QueueAssumption ==
  /\ IsFiniteSet(Items)
  /\ Ranking \in [Items -> Nat]
  /\ MAX_LIMIT \in Nat \ {0} /\ DEFAULT_LIMIT \in 1..MAX_LIMIT
  /\ MaxPages \in Nat /\ MaxChanges \in Nat

VARIABLES
  status,    \* graph: status of each obligation
  elsewhere, \* Tier C items the gate calls neither free nor the reviewer's
  walk,      \* the pages asked for: filter, position, rows read but not answered
  listed,    \* how often the pages answered so far show each item
  left,      \* history: what the walk was for and no longer is
  entered,   \* history: what came to be for the walk after it began
  changes

queueVars == <<status, elsewhere, walk, listed, left, entered, changes>>

ALLOWED_STATUSES == {"tier_b_review", "tier_c_review", "escalated"}
QueueStatuses == ALLOWED_STATUSES \cup {"proposed", "tier_a_committed", "committed"}
ALL_TIERS == {"B", "C", "ESCALATE"}
Unset == [at |-> "none", statuses |-> {}, limit |-> 1, skip |-> 0, rows |-> {}, more |-> FALSE, mine |-> FALSE, pages |-> 0]

QueueTypeOK ==
  /\ status \in [Items -> QueueStatuses]
  /\ elsewhere \subseteq Items
  /\ walk \in [at: {"none", "next", "gate", "end"}, statuses: SUBSET QueueStatuses, limit: 1..MAX_LIMIT,
               skip: Nat, rows: SUBSET Items, more: BOOLEAN, mine: BOOLEAN, pages: 0..MaxPages]
  /\ listed \in [Items -> Nat]
  /\ left \subseteq Items /\ entered \subseteq Items
  /\ changes \in 0..MaxChanges

QueueInit ==
  /\ status \in [Items -> {"proposed", "tier_a_committed", "tier_b_review", "tier_c_review"}]
  /\ elsewhere \in SUBSET {o \in Items : status[o] = "tier_c_review"}
  /\ walk = Unset
  /\ listed = [o \in Items |-> 0]
  /\ left = {} /\ entered = {}
  /\ changes = 0

Wanted(statuses) == {o \in Items : status[o] \in statuses}

\* Others decide an item, or an item is routed to review.
Change(o) ==
  /\ changes < MaxChanges
  /\ changes' = changes + 1
  /\ UNCHANGED <<elsewhere, walk, listed>>
  /\ \/ status[o] \in ALLOWED_STATUSES /\ status' = [status EXCEPT ![o] = "committed"]
     \/ status[o] = "proposed" /\ \E s \in ALLOWED_STATUSES : status' = [status EXCEPT ![o] = s]
  /\ left' = left \cup (Wanted(walk.statuses) \ Wanted(walk.statuses)')
  /\ entered' = entered \cup (Wanted(walk.statuses)' \ Wanted(walk.statuses))

TierFromObligationStatus(s) ==
  CASE s = "tier_b_review" -> "B"
    [] s = "tier_c_review" -> "C"
    [] s = "escalated" -> "ESCALATE"
    [] OTHER -> None

ParseTiers(requested) == IF requested \cap ALL_TIERS = {} THEN ALL_TIERS ELSE requested \cap ALL_TIERS

ParseStatuses(requested) ==
  IF requested \cap ALLOWED_STATUSES = {} THEN ALLOWED_STATUSES ELSE requested \cap ALLOWED_STATUSES

ParseLimit(n) ==
  CASE n = 0 -> DEFAULT_LIMIT
    [] n > MAX_LIMIT -> MAX_LIMIT
    [] OTHER -> n

\* A tier filter that leaves no status is dropped.
StatusesFor(tiers, statuses) ==
  LET both == {s \in ParseStatuses(statuses) : TierFromObligationStatus(s) \in ParseTiers(tiers)}
  IN IF both = {} THEN ParseStatuses(statuses) ELSE both

StartWalk(tiers, statuses, limit, mine) ==
  /\ walk.at = "none"
  /\ walk' = [Unset EXCEPT !.at = "next", !.statuses = StatusesFor(tiers, statuses),
                           !.limit = ParseLimit(limit), !.mine = mine]
  /\ UNCHANGED <<status, elsewhere, listed, left, entered, changes>>

\* ORDER BY t.risk_score DESC: the place of each item in one of the orders it allows.
Orders(matched) ==
  {order \in Bijection(matched, 1..Cardinality(matched)) :
     \A p, q \in matched : Ranking[p] < Ranking[q] => order[p] < order[q]}

\* fetchQueueItems.  One row more than the page is read: it shows whether there
\* is another page.
ReadRows ==
  /\ walk.at = "next"
  /\ walk.pages < MaxPages
  /\ \E order \in Orders(Wanted(walk.statuses)) :
       LET upTo(n) == {o \in DOMAIN order : order[o] \in (walk.skip + 1)..(walk.skip + n)}
       IN walk' = [walk EXCEPT !.at = "gate", !.rows = upTo(walk.limit),
                               !.more = upTo(walk.limit + 1) # upTo(walk.limit), !.pages = @ + 1]
  /\ UNCHANGED <<status, elsewhere, listed, left, entered, changes>>

NextSkipOfRows(skip, limit, shown) == skip + limit + 1  \* mutation: the row beyond the page counts as read

NextSkip(skip, limit, shown) == skip + limit

\* isVisibleForAssignedToMe: a Tier C item is left out when the gate says it is
\* neither free nor the reviewer's.  A gate that cannot be read hides nothing.
VisibleForMe(rows, gateAnswers) ==
  IF walk.mine /\ gateAnswers THEN rows \ elsewhere ELSE rows

AnswerPage(gateAnswers) ==
  LET shown == VisibleForMe(walk.rows, gateAnswers)
  IN /\ walk.at = "gate"
     /\ listed' = [o \in Items |-> IF o \in shown THEN listed[o] + 1 ELSE listed[o]]
     /\ walk' = IF walk.more
                THEN [walk EXCEPT !.at = "next", !.rows = {},
                                  !.skip = NextSkip(walk.skip, walk.limit, Cardinality(shown))]
                ELSE [walk EXCEPT !.at = "end", !.rows = {}]
     /\ UNCHANGED <<status, elsewhere, left, entered, changes>>

QueueNext ==
  \/ \E o \in Items : Change(o)
  \/ \E tiers \in {{}, {"B"}, {"C", "ESCALATE"}}, statuses \in {{}, {"tier_b_review"}, {"proposed", "tier_c_review"}} :
     \E limit \in 0..(MAX_LIMIT + 1), mine \in BOOLEAN : StartWalk(tiers, statuses, limit, mine)
  \/ ReadRows
  \/ \E gateAnswers \in BOOLEAN : AnswerPage(gateAnswers)

QueueSpec == QueueInit /\ [][QueueNext]_queueVars

(***************************************************************************)
(* Properties.                                                             *)
(***************************************************************************)
\* Items ahead of this one wherever the walk reads them.
Riskier(p, o) == Ranking[p] < Ranking[o]

\* The walk was for this item all the time, and for no other of its score.
Steady(o) ==
  /\ o \in Wanted(walk.statuses) \ entered
  /\ \A p \in Wanted(walk.statuses) \cup left : p # o => Ranking[p] # Ranking[o]

\* A walk to the last page shows what it is for, whatever is decided and arrives
\* meanwhile: an item that was in review all the time is missing only when the
\* gate calls it another's or a riskier one left, and comes again only when a
\* riskier one entered.  (Of items with one score any may be missing or come
\* twice.)
WalkIsAccounted ==
  walk.at = "end" =>
    \A o \in Items :
      /\ listed[o] > 0 => o \in Wanted(walk.statuses) \cup left
      /\ Steady(o) =>
           /\ listed[o] = 0 => (walk.mine /\ o \in elsewhere) \/ \E p \in left : Riskier(p, o)
           /\ listed[o] > 1 => \E p \in entered : Riskier(p, o)

=============================================================================
